---- MODULE Spec2Model ----
(***************************************************************************)
(* The request pipeline of the API gateway for one route: the chain of     *)
(* middlewares composed in cmd/gateway/main.go (rate limit, auth,          *)
(* concurrency gate, circuit breaker, reverse proxy), the counting         *)
(* semaphore of internal/mw/concurrency.go and the three-state circuit     *)
(* breaker of internal/mw (CircuitBreaker), run by concurrent requests.    *)
(* Time is counted in ticks of one second.                                 *)
(***************************************************************************)
EXTENDS Integers, Sequences, FiniteSets, TLC

\* ---- bounds of the model
NReq == 2                  \* request goroutines that may be in flight together
MaxTime == 2               \* the clock runs from 0 to MaxTime
MaxInFlight == 1           \* concurrency.max_in_flight of the route
FailureThreshold == 2      \* circuit_breaker.failure_threshold
OpenDuration == 1          \* circuit_breaker.open_seconds, in ticks
HalfOpenMaxInFlight == 1   \* circuit_breaker.half_open_max_in_flight
LiveReqN == 1              \* request goroutines of the liveness specification
MaxCalls == 3              \* Allow calls made on the key
MaxServed == 2             \* requests served on the keyed route
MaxRoutes == 2             \* routes in the table
MaxPrefixLen == 2          \* bytes in a path_prefix or strip_prefix
MaxPathLen == 3            \* bytes in a request path
MaxStamp == 2              \* exp, nbf and the clock of a token check run from
                           \* 0 to MaxStamp seconds
MaxClock == 3              \* the clock of the JWKS validator runs from 0 to
                           \* MaxClock seconds
CacheTTL == 2              \* auth.jwks.cache_ttl_seconds
MaxAdminServed == 2        \* requests served on the admin paths

Reqs == 1..NReq
LiveReqs == 1..LiveReqN

\* statuses the reverse proxy can leave on the response writer: nothing written
\* (0, which every reader treats as 200), a 4xx and a 5xx
Statuses == {0, 413, 500}

VARIABLES
  cfg,             \* the route's configuration, fixed at startup
  now,             \* wall clock, time.Now()
  upstreamHealthy, \* environment: the upstream has stopped failing
  settledAtRecovery, \* the breaker was open, with no failure left to count,
                   \* at the moment the upstream stopped failing
  breaker,         \* CircuitBreaker fields: state, fails, opensAt, halfInFlight
  inUse,           \* len(sem.ch)
  pc,              \* per request: idle / enter / cb_allow / exit
  pos,             \* per request: index in Handlers(cfg) of the handler it is in
  reqNow,          \* per request: the `now` CircuitBreak read before locking
  resp,            \* per request: what has been written to the client so far
  panicked,        \* per request: the handler is unwinding with a panic
  trace,           \* per request: the stages entered so far, in order
  admittedIn,      \* per request: breaker state of an admission not yet completed
  holds,           \* per request: it owns a slot of the semaphore
  sent,            \* the response the step just taken delivered to its client
                   \* (the outermost handler returned), with the stages the
                   \* request went through; NoSent after any other step
  lastDone         \* when the step just taken was a doneLocked, what it was:
                   \* a failure counted in CLOSED while another failed request
                   \* waited for the mutex, another completion in CLOSED, the
                   \* completion of a half-open probe, or something else

\* the rate limiter, looked at on one key
VARIABLES
  lim,             \* the rps and burst the route passes to Allow
  clock,           \* wall clock in milliseconds, time.Now().UnixMilli()
  store,           \* the remote store's hash under the key: tokens, ts and
                   \* the time its PEXPIRE runs out
  entry,           \* MemoryLimiter.m[key]: the rate.Limiter and lastSeen
  calls            \* the Allow calls made so far with what each backend
                   \* returned, oldest first

limiterVars == <<lim, clock, store, entry, calls>>

\* gateway instances sharing the remote store
VARIABLES
  gw,              \* per gateway: its RedisLimiter.Allow call in flight, with
                   \* the now it read and the hash as it was then
  evals            \* the runs of the script so far, oldest first

sharedVars == <<gw, evals>>

\* requests on their way to the rate limiter
VARIABLES
  edge,            \* the route's configuration, server.trusted_proxies and
                   \* IPResolver.Trusted
  served           \* what has become of the requests served so far

edgeVars == <<edge, served>>

\* the router and the path functions of internal/proxy
VARIABLES
  rtr,             \* the configured routes, and the *Router and error New
                   \* returned once it was called
  probe            \* a path and a prefix, and what Match or StripPath
                   \* returned for them once it was called

routerVars == <<rtr, probe>>

\* the JWKS validator and the key server it fetches from
VARIABLES
  jwks,            \* JWKSValidator: keys, fetchedAt and the options it keeps
  idp,             \* the key document the server publishes
  vnow,            \* time.Now(), in seconds
  vals,            \* per goroutine: its call of Validate and where it is
  vlast            \* the call of Validate that has just returned, if the
                   \* last step was its return

jwksVars == <<jwks, idp, vnow, vals, vlast>>

\* one token checked against one key
VARIABLES
  vin,             \* the validator's options, the token, what getKey returns
                   \* and time.Now().Unix()
  vout             \* what Validate returned for them once it was called

claimsVars == <<vin, vout>>

authVars == <<jwksVars, claimsVars>>

\* the admin endpoints
VARIABLES
  adm,             \* APIGW_ADMIN_KEY as main read it
  adone            \* what has become of the admin requests served so far

adminVars == <<adm, adone>>

VARIABLES
  mem,             \* MemoryLimiter: the entry m.m holds for the key, and every
                   \* memEntry made so far
  callers,         \* per goroutine: its call of MemoryLimiter.Allow and where
                   \* it is
  mclock           \* time.Now(), in milliseconds

memVars == <<mem, callers, mclock>>

VARIABLES
  mu,              \* j.mu: whether it is held for writing, and the goroutines
                   \* holding it for reading
  wr,              \* the goroutine in refresh: where it is and the map it builds
  rd,              \* per reader: where it is in getKey and what it has read
  hist             \* the pairs (keys, fetchedAt) the cache has held

snapVars == <<mu, wr, rd, hist>>

VARIABLES
  chain,           \* the route whose handler chain main has built
  quota,           \* the local limiter's entry for each key of the route
  billed           \* the request just served: its key, what the limiter did
                   \* and the answer

chargeVars == <<chain, quota, billed>>

\* what belongs to the other components of the gateway
aside == <<limiterVars, sharedVars, edgeVars, routerVars, authVars, adminVars,
           memVars, snapVars, chargeVars>>

reqVars == <<pc, pos, reqNow, resp, panicked, trace, admittedIn, holds>>
env == <<upstreamHealthy, settledAtRecovery>>
obs == <<sent, lastDone>>
vars_pipeline == <<cfg, now, env, breaker, inUse, reqVars, obs>>
vars == <<vars_pipeline, aside>>

NoResp == [status |-> 0, error |-> "none", retryAfter |-> -1]
NoSent == [req |-> 0, resp |-> NoResp, trace |-> <<>>]

\* ---- pipeline composition (outermost handler first)

\* variant: the breaker wrapped outside the concurrency gate
PipelineBreakerOutsideGate ==
  <<"ratelimit", "auth", "breaker", "concurrency", "proxy">>

\* variant: authentication wrapped outside the rate limit
PipelineAuthFirst ==
  <<"auth", "ratelimit", "concurrency", "breaker", "proxy">>

\* h = proxy; h = CircuitBreak(h); h = ConcurrencyLimit(h); h = RequireAuth(h);
\* h = RateLimit(h): the last wrapper runs first.
Pipeline == <<"ratelimit", "auth", "concurrency", "breaker", "proxy">>

\* each wrapper is applied only when its feature is configured
StageEnabled(c, s) ==
  CASE s = "ratelimit"   -> c.rlEnabled
    [] s = "auth"        -> c.authRequired
    [] s = "concurrency" -> c.maxInFlight > 0
    [] s = "breaker"     -> c.brEnabled
    [] OTHER             -> TRUE

\* variant: RequireAuth wrapped outside RateLimit
HandlersAuthFirst(c) ==
  SelectSeq(<<"auth", "ratelimit", "concurrency", "breaker", "proxy">>,
            LAMBDA s : StageEnabled(c, s))

Handlers(c) == SelectSeq(Pipeline, LAMBDA s : StageEnabled(c, s))

\* variant: Release called after next.ServeHTTP instead of in a defer
PostStagesNoDefer(p) == IF p THEN {} ELSE {"concurrency", "breaker"}

\* wrappers that still have work to do when the inner handler comes back:
\* ConcurrencyLimit releases in a defer (runs on panic too), CircuitBreak
\* calls doneLocked after next.ServeHTTP returns (skipped by a panic).
PostStages(p) == IF p THEN {"concurrency"} ELSE {"concurrency", "breaker"}

\* the handler that resumes when handler i returns (0: the chain is finished)
ResumeIdx(c, i, p) ==
  LET S == {j \in 1..(i - 1) : Handlers(c)[j] \in PostStages(p)}
  IN  IF S = {} THEN 0 ELSE CHOOSE j \in S : \A k \in S : k <= j

\* ---- semaphore

\* variant: a send that does not see the channel is full
TryAcquireOffByOne(n, c) ==
  IF n <= c.maxInFlight THEN [ok |-> TRUE, inUse |-> n + 1]
                        ELSE [ok |-> FALSE, inUse |-> n]

TryAcquire(n, c) == IF n < c.maxInFlight THEN [ok |-> TRUE, inUse |-> n + 1]
                                         ELSE [ok |-> FALSE, inUse |-> n]

Release(n) == IF n > 0 THEN n - 1 ELSE n

\* ---- circuit breaker

\* variant: the open window is not waited for
OpenElapsedAtOnce(b, t) == t - b.opensAt >= 0

\* if now.Sub(b.opensAt) >= b.cfg.OpenDuration
OpenElapsed(b, t) == t - b.opensAt >= OpenDuration

\* variant: the counters are not reset on entering half-open
EnterHalfOpenNoReset(b) == [b EXCEPT !.state = "half_open"]

\* b.state = BreakerHalfOpen; b.fails = 0; b.halfInFlight = 0
EnterHalfOpen(b) ==
  [b EXCEPT !.state = "half_open", !.fails = 0, !.halfInFlight = 0]

\* variant: one probe too many
HalfOpenFullOffByOne(b) == b.halfInFlight > HalfOpenMaxInFlight

\* if b.halfInFlight >= b.cfg.HalfOpenMaxInFlight
HalfOpenFull(b) == b.halfInFlight >= HalfOpenMaxInFlight

RECURSIVE allowLocked(_, _)
allowLocked(b, t) ==
  CASE b.state = "closed" -> [b |-> b, allowed |-> TRUE, retryAfter |-> 0]
    [] b.state = "open" ->
         IF OpenElapsed(b, t)
         THEN allowLocked(EnterHalfOpen(b), t)
         ELSE LET rem == OpenDuration - (t - b.opensAt)
              IN  [b |-> b, allowed |-> FALSE,
                   retryAfter |-> IF rem < 0 THEN 0 ELSE rem]
    [] b.state = "half_open" ->
         IF HalfOpenFull(b)
         THEN [b |-> b, allowed |-> FALSE, retryAfter |-> 1]
         ELSE [b |-> [b EXCEPT !.halfInFlight = @ + 1],
               allowed |-> TRUE, retryAfter |-> 0]

\* variant: a read-modify-write that loses the update of a concurrent failure
CountFailureLost(f) == IF f = 0 THEN 1 ELSE f

\* b.fails++
CountFailure(f) == f + 1

\* variant: one probe success is not enough to close
ProbeSucceededStaysHalfOpen(b) == [b EXCEPT !.fails = 0]

\* b.state = BreakerClosed; b.fails = 0
ProbeSucceeded(b) == [b EXCEPT !.state = "closed", !.fails = 0]

\* variant: a failed probe reopens without restoring the failure count
ProbeFailedKeepsCount(b, t) == [b EXCEPT !.state = "open", !.opensAt = t]

\* b.state = BreakerOpen; b.opensAt = time.Now(); b.fails = FailureThreshold
ProbeFailed(b, t) ==
  [b EXCEPT !.state = "open", !.opensAt = t, !.fails = FailureThreshold]

doneLocked(b, success, t) ==
  CASE b.state = "closed" ->
         IF success THEN [b EXCEPT !.fails = 0]
         ELSE LET f == CountFailure(b.fails)
              IN  IF f >= FailureThreshold
                  THEN [b EXCEPT !.fails = f, !.state = "open", !.opensAt = t]
                  ELSE [b EXCEPT !.fails = f]
    [] b.state = "half_open" ->
         LET d == [b EXCEPT !.halfInFlight = IF @ > 0 THEN @ - 1 ELSE @]
         IN  IF success THEN ProbeSucceeded(d) ELSE ProbeFailed(d, t)
    [] OTHER -> b

\* variant: every 4xx counted as an upstream failure
SuccessBelow400(status) == (IF status = 0 THEN 200 ELSE status) < 400

\* status := sw.Status; if status == 0 { status = 200 }; success := status < 500
Success(status) == (IF status = 0 THEN 200 ELSE status) < 500

\* Retry-After is written only when retry > 0: int((retry+999ms)/time.Second)
RetryAfterHeader(retry) ==
  IF retry > 0 THEN (retry * 1000 + 999) \div 1000 ELSE -1

\* ---- the token bucket: internal/ratelimit
\* Tokens, burst and cost are counted in millionths of a token and rates in
\* millionths of a token per millisecond (thousandths of a token per second),
\* so that the script's (delta / 1000.0) * rate is delta * rate and its
\* (missing / rate) * 1000.0 is missing / rate.  The arithmetic is exact where
\* the code's is in float64.

MsPerSec == 1000       \* milliseconds in a second
ExpireMs == 300000     \* PEXPIRE of the remote key, in milliseconds
EntryTTLMs == 300000   \* ttl of the MemoryLimiter, 5 * time.Minute

Token == MsPerSec * MsPerSec

Min(a, b) == IF a < b THEN a ELSE b
Max(a, b) == IF a > b THEN a ELSE b

\* int(x) of a non-negative number of tokens, and the Lua number of a reply
\* converted to an integer by the store
Trunc(x) == (x \div Token) * Token

NoKey == [present |-> FALSE, tokens |-> 0, ts |-> 0, expiresAt |-> 0]

\* HMGET finds the hash: it was written and its PEXPIRE has not run out at
\* time t of the store
Stored(s, t) == s.present /\ t < s.expiresAt

\* local delta = math.max(0, now_ms - ts)
Elapsed(now_ms, ts) == Max(0, now_ms - ts)

\* the refill forgets the cap
RefillUncapped(tokens, delta, rate, burst) == tokens + delta * rate

\* local add = (delta / 1000.0) * rate; tokens = math.min(burst, tokens + add)
Refill(tokens, delta, rate, burst) == Min(burst, tokens + delta * rate)

\* if tokens >= cost
Enough(tokens, cost) == tokens >= cost

\* retry_ms of a rejection
RetryMs(missing, rate) == IF rate > 0 THEN missing \div rate ELSE MsPerSec

\* the script, run by the store at its time t with ARGV now_ms, rate, burst,
\* cost on the hash s: the hash it leaves and the reply {allowed, tokens,
\* retry_ms}
tokenBucketLua(s, t, now_ms, rate, burst, cost) ==
  LET tokens == IF ~Stored(s, t) THEN burst
                ELSE Refill(s.tokens, Elapsed(now_ms, s.ts), rate, burst)
      allowed == Enough(tokens, cost)
      left == IF allowed THEN tokens - cost ELSE tokens
      retry_ms == IF allowed THEN 0 ELSE RetryMs(cost - tokens, rate)
  IN  [store |-> [present |-> TRUE, tokens |-> left, ts |-> now_ms,
                  expiresAt |-> t + ExpireMs],
       reply |-> <<IF allowed THEN 1 ELSE 0, Trunc(left), retry_ms>>]

NoDecision == [allowed |-> FALSE, retryAfterSeconds |-> 0, remaining |-> 0]

\* int((retryMs + 999) / 1000)
RetrySeconds(retryMs) == (retryMs + 999) \div MsPerSec

\* RedisLimiter.Allow once Eval has returned arr
RedisDecision(arr) ==
  [allowed |-> arr[1] = 1,
   remaining |-> arr[2],
   retryAfterSeconds |-> IF arr[1] = 1 THEN 0 ELSE RetrySeconds(arr[3])]

NoEntry == [present |-> FALSE, limit |-> 0, burst |-> 0, tokens |-> 0,
            last |-> 0, lastSeen |-> 0]

\* &memEntry{lim: rate.NewLimiter(rate.Limit(rps), int(burst))}: a full bucket
NewEntry(rate, burst) ==
  [present |-> TRUE, limit |-> rate, burst |-> Trunc(burst),
   tokens |-> Trunc(burst), last |-> 0, lastSeen |-> 0]

\* lim.advance(t): the tokens of the limiter at time t, its bucket refilled at
\* e.limit for the time since its last event and capped at e.burst (the bucket
\* is full once the time elapsed exceeds burst / limit)
advance(e, t) ==
  LET elapsed == Elapsed(t, e.last)
  IN  IF e.limit > 0 /\ elapsed > e.burst \div e.limit THEN e.burst
      ELSE Min(e.burst, e.tokens + elapsed * e.limit)

\* lim.Allow() at time t: takes one token if the refilled bucket has one
LimAllow(e, t) ==
  LET tokens == advance(e, t)
  IN  IF tokens >= Token
      THEN [ok |-> TRUE, e |-> [e EXCEPT !.tokens = tokens - Token, !.last = t]]
      ELSE [ok |-> FALSE, e |-> e]

\* for i := 0; i < int(cost); i++ { if !lim.Allow() { allowed = false; break } }
RECURSIVE AllowLoop(_, _, _)
AllowLoop(e, t, n) ==
  IF n = 0 THEN [ok |-> TRUE, e |-> e]
  ELSE LET one == LimAllow(e, t)
       IN  IF one.ok THEN AllowLoop(one.e, t, n - 1) ELSE one

\* MemoryLimiter.Allow at time t on entry e of the key: the entry it leaves
\* and the Decision
MemoryAllow(e, t, rate, burst, cost) ==
  LET e0 == IF e.present THEN e ELSE NewEntry(rate, burst)
      run == AllowLoop([e0 EXCEPT !.lastSeen = t], t, cost \div Token)
  IN  [entry |-> run.e,
       dec |-> [allowed |-> run.ok, remaining |-> 0,
                retryAfterSeconds |-> IF run.ok THEN 0 ELSE 1]]

\* the tokens the limiter has for a key of route c when a call arrives: a
\* full bucket when the key has no entry
LocalTokens(e, c) == IF e.present THEN e.tokens ELSE Trunc(c.burst)

\* gcLoop on the entry: now.Sub(e.lastSeen) > m.ttl
Evictable(e, t) == e.present /\ t - e.lastSeen > EntryTTLMs

\* a backend error answered like a rejection
RateLimitAnswerFailClosed(err, dec) ==
  IF err \/ ~dec.allowed
  THEN [status |-> 429, error |-> "rate_limited",
        retryAfter |-> dec.retryAfterSeconds]
  ELSE NoResp

\* the RateLimit middleware once limiter.Allow has returned (dec, err): what it
\* writes to the client, NoResp when it calls next.ServeHTTP
RateLimitAnswer(err, dec) ==
  IF err THEN NoResp
  ELSE IF ~dec.allowed
       THEN [status |-> 429, error |-> "rate_limited",
             retryAfter |-> dec.retryAfterSeconds]
       ELSE NoResp

\* what limiter.Allow can return to the middleware: an error, an allowed
\* decision, or a rejection with a hint of 0 or of 1 second
Outcomes ==
  {[err |-> TRUE, dec |-> NoDecision],
   [err |-> FALSE, dec |-> [NoDecision EXCEPT !.allowed = TRUE]],
   [err |-> FALSE, dec |-> NoDecision],
   [err |-> FALSE, dec |-> [NoDecision EXCEPT !.retryAfterSeconds = 1]]}

\* the limits of the route: rps 0.001, 1, 3 and 0; burst 1, 2 and 2.5
Limits ==
  {[rate |-> 1, burst |-> Token],
   [rate |-> MsPerSec, burst |-> 2 * Token],
   [rate |-> 3 * MsPerSec, burst |-> Token],
   [rate |-> MsPerSec, burst |-> 2 * Token + Token \div 2],
   [rate |-> 0, burst |-> Token]}

\* the cost of a call, in tokens
Costs == {Token, 2 * Token}

\* how long the key is left alone between calls, in milliseconds
Idles == {333, MsPerSec, EntryTTLMs + 1}

Gateways == {"gw1", "gw2"}

\* no call in flight
NoEval == [pc |-> "idle", now_ms |-> 0, cost |-> 0, seen |-> NoKey]

\* how long an Eval can be on its way, in milliseconds
Latencies == {333, MsPerSec}

\* the limiter has not been used
LimiterOff ==
  /\ lim = [rate |-> 0, burst |-> 0]
  /\ clock = 0
  /\ store = NoKey
  /\ entry = NoEntry
  /\ calls = <<>>

\* no gateway is calling the store
SharedOff ==
  /\ gw = [g \in Gateways |-> NoEval]
  /\ evals = <<>>

\* ---- client address and rate-limit key: internal/mw, internal/netx
\* Strings are kept as they are written; the parsers are tables over the few
\* texts the requests of the model carry.

Nil == "<nil>"

\* net.SplitHostPort: the host of "host:port", an error for anything else
SplitHostPort(addr) ==
  CASE addr = "10.1.2.3:1234"    -> [host |-> "10.1.2.3", err |-> FALSE]
    [] addr = "192.168.1.5:1234" -> [host |-> "192.168.1.5", err |-> FALSE]
    [] OTHER                     -> [host |-> "", err |-> TRUE]

\* strings.TrimSpace
TrimSpace(t) ==
  CASE t = " 203.0.113.9" -> "203.0.113.9"
    [] t = " "            -> ""
    [] OTHER              -> t

\* net.ParseIP: the address a text spells, Nil when it spells none.  An
\* address is named by its canonical text.
ParseIP(t) ==
  CASE t \in {"10.1.2.3", "192.168.1.5", "203.0.113.9", "198.51.100.7"} -> t
    [] t = "::ffff:203.0.113.9" -> "203.0.113.9"
    [] OTHER -> Nil

\* net.IP.String
IPString(ip) == ip

\* parseRemoteIP
parseRemoteIP(remoteAddr) ==
  LET hp == SplitHostPort(remoteAddr)
  IN  IF hp.err THEN ParseIP(remoteAddr) ELSE ParseIP(hp.host)

\* net.IPNet.Contains
NetContains(n, ip) == n = "10.0.0.0/8" /\ ip = "10.1.2.3"

\* a nil *CIDRSet
NoCIDRSet == [nil |-> TRUE, nets |-> {}]

\* CIDRSet.Contains
Contains(s, ip) ==
  IF s.nil \/ s.nets = {} \/ ip = Nil THEN FALSE
  ELSE \E n \in s.nets : NetContains(n, ip)

\* the forwarded headers, if they name an address: the leftmost entry of
\* X-Forwarded-For, else X-Real-Ip
Forwarded4(req) ==
  LET first == IF req.xff # <<>> THEN ParseIP(TrimSpace(req.xff[1])) ELSE Nil
      xrip == ParseIP(TrimSpace(req.xreal))
  IN  IF first # Nil THEN first ELSE xrip

\* a resolver that believes the forwarded headers of any peer
ClientIPTrusting(trusted, req) ==
  LET remoteIP == parseRemoteIP(req.remoteAddr)
  IN  IF remoteIP # Nil /\ Forwarded4(req) # Nil
      THEN IPString(Forwarded4(req))
      ELSE IF remoteIP # Nil THEN IPString(remoteIP) ELSE req.remoteAddr

\* IPResolver{Trusted: trusted}.ClientIP(req)
ClientIP(trusted, req) ==
  LET remoteIP == parseRemoteIP(req.remoteAddr)
  IN  IF /\ remoteIP # Nil /\ ~trusted.nil /\ Contains(trusted, remoteIP)
         /\ Forwarded4(req) # Nil
      THEN IPString(Forwarded4(req))
      ELSE IF remoteIP # Nil THEN IPString(remoteIP) ELSE req.remoteAddr

\* Authenticator.ValidateBearer: the subject of a valid token, Nil for an
\* error
ValidateBearer(req) ==
  CASE req.bearer = "token-alice" -> "alice"
    [] req.bearer = "token-bob"   -> "bob"
    [] OTHER                      -> Nil

\* the key RateLimit charges: "rl:" + RouteName + ":" + tag + ":" + id, kept
\* as its parts; sub is Subject(r.Context()), Nil when the context has none
RateLimitKey(c, trusted, sub, req) ==
  IF c.scope = "user" /\ sub # Nil
  THEN [key |-> <<"rl", c.name, "u", sub>>, actor |-> "user", ip |-> Nil]
  ELSE [key |-> <<"rl", c.name, "ip", ClientIP(trusted, req)>>,
        actor |-> "ip", ip |-> ClientIP(trusted, req)]

\* a request that has just come in: nothing in its context, no key, no answer
Incoming(req) ==
  [req |-> req, sub |-> Nil, key |-> <<>>, actor |-> "", ip |-> Nil,
   status |-> 0]

\* the composed handler h of route c from its i-th handler on, serving
\* exchange x: what has become of the exchange when h returns.  RateLimit
\* charges the key (the limiter lets the request pass), RequireAuth answers
\* 401 or puts the subject in the context, the proxy answers.
RECURSIVE ServeFrom(_, _, _, _)
ServeFrom(c, trusted, i, x) ==
  LET s == Handlers(c)[i]
  IN  CASE s = "ratelimit" ->
             LET k == RateLimitKey(c, trusted, x.sub, x.req)
             IN  ServeFrom(c, trusted, i + 1,
                           [x EXCEPT !.key = k.key, !.actor = k.actor,
                                     !.ip = k.ip])
        [] s = "auth" ->
             LET sub == ValidateBearer(x.req)
             IN  IF sub = Nil THEN [x EXCEPT !.status = 401]
                 ELSE ServeFrom(c, trusted, i + 1, [x EXCEPT !.sub = sub])
        [] s = "proxy" -> [x EXCEPT !.status = 200]
        [] OTHER -> ServeFrom(c, trusted, i + 1, x)

\* routes with a rate limit, by scope and with or without auth
KeyedRoutes ==
  {[name |-> "r1", rlEnabled |-> TRUE, authRequired |-> a, brEnabled |-> FALSE,
    maxInFlight |-> 0, scope |-> sc] : a \in BOOLEAN, sc \in {"ip", "user"}}

\* IPResolver.Trusted: nil, or the set parsed from a list of CIDRs
TrustedSets ==
  {NoCIDRSet, [nil |-> FALSE, nets |-> {}],
   [nil |-> FALSE, nets |-> {"10.0.0.0/8"}]}

\* the requests: the peer is a proxy in 10.0.0.0/8, another host, or has an
\* address that does not parse
Requests ==
  [remoteAddr : {"10.1.2.3:1234", "192.168.1.5:1234", "@"},
   xff : {<<>>, <<"203.0.113.9", "10.1.2.3">>, <<"junk">>},
   xreal : {"", "198.51.100.7"},
   bearer : {"", "token-alice", "token-bob"}]

\* server.trusted_proxies: no proxy, or the proxies of 10.0.0.0/8
ProxyLists == {<<>>, <<"10.0.0.0/8">>}

\* the resolver main hands to RateLimit: ipr := mw.IPResolver{}
ipr(trustedProxies) == NoCIDRSet

\* no request has been keyed
EdgeOff ==
  /\ edge = [route |-> [name |-> "", rlEnabled |-> FALSE,
                        authRequired |-> FALSE, brEnabled |-> FALSE,
                        maxInFlight |-> 0, scope |-> "ip"],
             proxies |-> <<>>,
             trusted |-> NoCIDRSet]
  /\ served = {}

\* ---- routes and paths: internal/proxy
\* A string is the sequence of its bytes.

\* the bytes paths and prefixes are written with
Alphabet == {"/", "a"}

\* the strings of at most n bytes
Strings(n) == UNION {[1..k -> Alphabet] : k \in 0..n}

\* strings.HasPrefix
HasPrefix(s, prefix) ==
  Len(s) >= Len(prefix) /\ SubSeq(s, 1, Len(prefix)) = prefix

\* strings.TrimPrefix
TrimPrefix(s, prefix) ==
  IF HasPrefix(s, prefix) THEN SubSeq(s, Len(prefix) + 1, Len(s)) ELSE s

\* StripPath without the rule for an empty rest
StripPathBare(path, strip) ==
  IF strip = <<>> THEN path
  ELSE IF HasPrefix(path, strip) THEN TrimPrefix(path, strip)
  ELSE path

\* StripPath
StripPath(path, strip) ==
  IF strip = <<>> THEN path
  ELSE IF HasPrefix(path, strip)
       THEN LET p == TrimPrefix(path, strip)
            IN  IF p = <<>> THEN <<"/">> ELSE p
  ELSE path

\* the less function New sorts with: route x goes before route y
Less(x, y) == Len(x.PathPrefix) > Len(y.PathPrefix)

\* the orders of n elements
Orders(n) ==
  {f \in [1..n -> 1..n] : \A i, j \in 1..n : i # j => f[i] # f[j]}

\* a slice left in the order it was given
SortSliceNot(routes) == {routes}

\* sort.Slice(routes, Less), which is not stable: every order of the routes
\* in which no route comes after one it goes before
SortSlice(routes) ==
  {[i \in 1..Len(routes) |-> routes[f[i]]] : f \in
     {g \in Orders(Len(routes)) :
        \A i, j \in 1..Len(routes) :
          i < j => ~Less(routes[g[j]], routes[g[i]])}}

\* no router and no routes
NoRouter == [built |-> FALSE, err |-> FALSE, routes |-> <<>>]

\* what New(routes) can return
New(routes) ==
  IF Len(routes) = 0
  THEN {[built |-> FALSE, err |-> TRUE, routes |-> <<>>]}
  ELSE {[built |-> TRUE, err |-> FALSE, routes |-> sorted] :
          sorted \in SortSlice(routes)}

\* a nil *Route
NoRoute == [Name |-> 0, PathPrefix |-> <<>>, nil |-> TRUE]

\* Router.Match from the i-th route on
RECURSIVE MatchFrom(_, _, _)
MatchFrom(routes, i, path) ==
  IF i > Len(routes) THEN NoRoute
  ELSE IF HasPrefix(path, routes[i].PathPrefix) THEN routes[i]
  ELSE MatchFrom(routes, i + 1, path)

\* Router.Match
Match(r, path) == MatchFrom(r.routes, 1, path)

\* the route tables: up to MaxRoutes routes, named by their place in the
\* configuration
Tables ==
  UNION {[1..n -> Strings(MaxPrefixLen)] : n \in 0..MaxRoutes}

\* the routes of a table
RoutesOf(table) ==
  [i \in 1..Len(table) |-> [Name |-> i, PathPrefix |-> table[i], nil |-> FALSE]]

\* no call of Match or StripPath yet
NoProbe ==
  [op |-> "none", path |-> <<>>, strip |-> <<>>, route |-> NoRoute,
   out |-> <<>>]

\* no router built, nothing asked of it
RouterOff ==
  /\ rtr = NoRouter
  /\ probe = NoProbe

\* ---- bearer tokens checked against a JWKS: internal/mw
\* time.Now().Unix() and the leeway are whole seconds.  A JSON number is kept
\* as a count of half seconds, so that a claim may fall between two seconds.

\* a JSON value of a claim: absent, a string, an array, or a number
Absent == [t |-> "absent", s |-> "", a |-> <<>>, h |-> 0]
JString(str) == [t |-> "string", s |-> str, a |-> <<>>, h |-> 0]
JArray(arr) == [t |-> "array", s |-> "", a |-> arr, h |-> 0]
JNumber(halves) == [t |-> "number", s |-> "", a |-> <<>>, h |-> halves]

\* an element of a JSON array that is not a string
NotAString == "<number>"

\* int64(t) of a float64: the fraction is dropped
Int64(halves) ==
  IF halves >= 0 THEN halves \div 2 ELSE 0 - ((0 - halves) \div 2)

\* extractAudiences
extractAudiences(v) ==
  CASE v.t = "string" -> IF v.s = "" THEN <<>> ELSE <<v.s>>
    [] v.t = "array"  -> SelectSeq(v.a, LAMBDA e : e # NotAString /\ e # "")
    [] OTHER          -> <<>>

\* extractInt64
extractInt64(v) ==
  IF v.t = "number" THEN [i |-> Int64(v.h), ok |-> TRUE]
  ELSE [i |-> 0, ok |-> FALSE]

\* claims[name].(string): the string, "" for anything else
AsString(v) == IF v.t = "string" THEN v.s ELSE ""

\* ttl = 5 * time.Minute when no CacheTTL is given, in seconds
DefaultCacheTTL == 300

\* NewJWKSValidator: what the validator keeps of its options
NewJWKSValidator(opts) ==
  [cacheTTL |-> IF opts.CacheTTL <= 0 THEN DefaultCacheTTL ELSE opts.CacheTTL,
   leeway |-> IF opts.Leeway < 0 THEN 0 ELSE opts.Leeway,
   validAlgs |-> IF opts.ValidAlgs = {} THEN {"RS256"} ELSE opts.ValidAlgs,
   issuerSet |-> opts.Issuers \ {""},
   audSet |-> opts.Audiences \ {""}]

\* nil error
NoErr == ""

\* validateClaims: the first error found, NoErr when there is none
validateClaims(j, claims, unix) ==
  LET auds == extractAudiences(claims.aud)
      exp == extractInt64(claims.exp)
      nbf == extractInt64(claims.nbf)
  IN  CASE j.issuerSet # {} /\ AsString(claims.iss) = "" -> "missing iss"
        [] j.issuerSet # {} /\ AsString(claims.iss) \notin j.issuerSet ->
             "invalid issuer"
        [] j.audSet # {} /\ auds = <<>> -> "missing aud"
        [] j.audSet # {} /\ ~\E k \in 1..Len(auds) : auds[k] \in j.audSet ->
             "invalid audience"
        [] ~exp.ok -> "missing exp"
        [] unix > exp.i + j.leeway -> "token expired"
        [] nbf.ok /\ unix < nbf.i - j.leeway -> "token not active"
        [] OTHER -> NoErr

\* no key: getKey returned an error
NoKeyFound == "<nil>"

\* the parser accepts the algorithm of the header before it asks for a key
MethodValid(j, tok) == tok.alg \in j.validAlgs

\* the signature of the token verifies under the key
Verifies(tok, key) == key # NoKeyFound /\ tok.alg = "RS256" /\ tok.sig = key

\* Validate once the key function has returned key for the token's kid:
\* the subject and the error
ValidateWith(j, tok, key, unix) ==
  IF ~tok.wellFormed \/ ~MethodValid(j, tok) \/ tok.kid = ""
     \/ key = NoKeyFound \/ ~Verifies(tok, key)
  THEN [sub |-> "", err |-> "invalid token"]
  ELSE IF validateClaims(j, tok.claims, unix) # NoErr
  THEN [sub |-> "", err |-> validateClaims(j, tok.claims, unix)]
  ELSE IF AsString(tok.claims.sub) = ""
  THEN [sub |-> "", err |-> "missing sub"]
  ELSE [sub |-> AsString(tok.claims.sub), err |-> NoErr]

\* the options main builds the validator from
Options ==
  [CacheTTL : {0}, Leeway : {0, 1}, ValidAlgs : {{"RS256"}},
   Issuers : {{}, {"issuer-1"}}, Audiences : {{}, {"apigw"}}]

\* the claims of a token
ClaimSets ==
  [iss : {Absent, JString("issuer-1"), JString("other")},
   aud : {Absent, JString("apigw"), JString("nope"),
          JArray(<<"nope", "apigw">>), JArray(<<NotAString, "nope">>)},
   exp : {Absent} \cup {JNumber(h) : h \in 0..(2 * MaxStamp)},
   nbf : {Absent} \cup {JNumber(h) : h \in 0..(2 * MaxStamp)},
   sub : {JString("user_123"), JString("")}]

\* claims that pass every check at any time of the model
GoodClaims ==
  [iss |-> JString("issuer-1"), aud |-> JString("apigw"),
   exp |-> JNumber(2 * MaxStamp), nbf |-> Absent, sub |-> JString("user_123")]

\* a token signed with key K1 under kid k1
GoodToken(claims) ==
  [wellFormed |-> TRUE, alg |-> "RS256", kid |-> "k1", sig |-> "K1",
   claims |-> claims]

\* tokens the parser or the signature check has something against
BadTokens ==
  {[GoodToken(GoodClaims) EXCEPT !.wellFormed = FALSE],
   [GoodToken(GoodClaims) EXCEPT !.alg = "HS256"],
   [GoodToken(GoodClaims) EXCEPT !.kid = ""],
   [GoodToken(GoodClaims) EXCEPT !.sig = "K2"]}

\* nothing validated yet
NoVerdict == [called |-> FALSE, sub |-> "", err |-> NoErr]

\* no token under check
ClaimsOff ==
  /\ vin = [opts |-> [CacheTTL |-> 0, Leeway |-> 0, ValidAlgs |-> {},
                      Issuers |-> {}, Audiences |-> {}],
            tok |-> GoodToken(GoodClaims), key |-> NoKeyFound, now |-> 0]
  /\ vout = NoVerdict

\* the zero time.Time
Never == 0 - 1

\* time.Since(j.fetchedAt) < j.cacheTTL
Fresh(j, cache, t) ==
  cache.fetchedAt # Never /\ t - cache.fetchedAt < j.cacheTTL

\* the RSA public key a key document gives for a kid
KeyOf(kid) == IF kid = "k1" THEN "K1" ELSE IF kid = "k2" THEN "K2" ELSE kid

\* j.keys[kid]
CachedKey(cache, kid) ==
  IF kid \in cache.keys THEN KeyOf(kid) ELSE NoKeyFound

\* the map refresh builds from a document: the kids of its RSA keys
Usable(doc) == {e.kid : e \in {d \in doc : d.kid # "" /\ d.kty = "RSA"}}

\* a refresh that forgets the cached keys when it fails
refreshForgetful(j, cache, t, res) ==
  IF Fresh(j, cache, t)
  THEN [cache |-> cache, err |-> NoErr, fetched |-> FALSE]
  ELSE IF res.kind = "ok" /\ Usable(res.doc) # {}
  THEN [cache |-> [keys |-> Usable(res.doc), fetchedAt |-> t],
        err |-> NoErr, fetched |-> TRUE]
  ELSE [cache |-> [keys |-> {}, fetchedAt |-> cache.fetchedAt],
        err |-> "refresh failed", fetched |-> TRUE]

\* a refresh that asks for the document without looking at the cache again
refreshUnchecked(j, cache, t, res) ==
  IF res.kind = "ok" /\ Usable(res.doc) # {}
  THEN [cache |-> [keys |-> Usable(res.doc), fetchedAt |-> t],
        err |-> NoErr, fetched |-> TRUE]
  ELSE [cache |-> cache, err |-> "refresh failed", fetched |-> TRUE]

\* JWKSValidator.refresh at time t when the GET of the key document has the
\* result res: the cache afterwards, the error, and whether the document was
\* asked for
refresh(j, cache, t, res) ==
  IF Fresh(j, cache, t)
  THEN [cache |-> cache, err |-> NoErr, fetched |-> FALSE]
  ELSE IF res.kind = "transport"
  THEN [cache |-> cache, err |-> "transport error", fetched |-> TRUE]
  ELSE IF res.kind = "status"
  THEN [cache |-> cache, err |-> "jwks http status", fetched |-> TRUE]
  ELSE IF res.kind = "undecodable"
  THEN [cache |-> cache, err |-> "decode error", fetched |-> TRUE]
  ELSE IF res.doc = {}
  THEN [cache |-> cache, err |-> "jwks empty", fetched |-> TRUE]
  ELSE IF Usable(res.doc) = {}
  THEN [cache |-> cache, err |-> "jwks: no usable rsa keys",
        fetched |-> TRUE]
  ELSE [cache |-> [keys |-> Usable(res.doc), fetchedAt |-> t],
        err |-> NoErr, fetched |-> TRUE]

\* getKey returning a cached key whether the cache is fresh or not
FirstReadAnyAge(j, cache, kid, t) == CachedKey(cache, kid)

\* the first read of getKey: the cached key when there is one and the cache
\* is fresh
FirstRead(j, cache, kid, t) ==
  IF CachedKey(cache, kid) # NoKeyFound /\ Fresh(j, cache, t)
  THEN CachedKey(cache, kid)
  ELSE NoKeyFound

\* the end of getKey after refresh returned err: the key and the error
SecondRead(cache, kid, err) ==
  IF CachedKey(cache, kid) # NoKeyFound
  THEN [key |-> CachedKey(cache, kid), err |-> NoErr]
  ELSE [key |-> NoKeyFound, err |-> IF err # NoErr THEN err ELSE "unknown kid"]

\* the goroutines calling Validate
Validators == {"v1", "v2"}

\* the validator of the gateway
Validator ==
  NewJWKSValidator([CacheTTL |-> CacheTTL, Leeway |-> 0,
                    ValidAlgs |-> {"RS256"}, Issuers |-> {"issuer-1"},
                    Audiences |-> {"apigw"}])

\* the entries of a key document
JwkK1 == [kid |-> "k1", kty |-> "RSA"]
JwkK2 == [kid |-> "k2", kty |-> "RSA"]
JwkEC == [kid |-> "k3", kty |-> "EC"]

\* the documents the key server may publish
Docs == {{JwkK1}, {JwkK1, JwkK2}, {JwkEC}, {}}

\* what a GET of the key document can come to: no response, a status
\* outside 2xx, a body that does not decode, or the published document
FetchKinds == {"transport", "status", "undecodable", "ok"}

\* the result of a GET that comes to this
FetchResult(kind) == [kind |-> kind, doc |-> IF kind = "ok" THEN idp ELSE {}]

\* tokens that outlive the model's clock, signed with the key of their kid,
\* and one with an algorithm the parser refuses
SignedTokens ==
  {[GoodToken([GoodClaims EXCEPT !.exp = JNumber(2 * MaxClock)])
      EXCEPT !.kid = kid, !.sig = KeyOf(kid)] : kid \in {"k1", "k2"}}
    \cup
  {[GoodToken([GoodClaims EXCEPT !.exp = JNumber(2 * MaxClock)])
      EXCEPT !.alg = "HS256"]}

\* a goroutine that is not in Validate
Idling == [pc |-> "idle", tok |-> GoodToken(GoodClaims), err |-> NoErr,
           fetched |-> FALSE, expired |-> Never]

\* no call has just returned
NoLast ==
  [g |-> "", tok |-> GoodToken(GoodClaims), path |-> "none",
   key |-> NoKeyFound, keyErr |-> NoErr, freshAtRead |-> FALSE,
   sub |-> "", err |-> NoErr]

\* a validator that has fetched nothing, a key server publishing nothing
JwksOff ==
  /\ jwks = [keys |-> {}, fetchedAt |-> Never]
  /\ idp = {}
  /\ vnow = 0
  /\ vals = [g \in Validators |-> Idling]
  /\ vlast = NoLast

AuthOff == JwksOff /\ ClaimsOff

\* ---- admin endpoints: internal/mw, cmd/gateway

\* the admin handler once it is reached: it answers 200
AdminHandler == [status |-> 200, error |-> "", invoked |-> TRUE]

\* RequireAdminKey that hands every request on when no key is configured
RequireAdminKeyOpen(adminKey, header) ==
  IF adminKey = "" THEN AdminHandler
  ELSE IF header # adminKey
  THEN [status |-> 401, error |-> "unauthorized", invoked |-> FALSE]
  ELSE AdminHandler

\* RequireAdminKey(adminKey, next) serving a request whose X-Admin-Key
\* header reads header ("" when there is none)
RequireAdminKey(adminKey, header) ==
  IF adminKey = ""
  THEN [status |-> 404, error |-> "", invoked |-> FALSE]
  ELSE IF header # adminKey
  THEN [status |-> 401, error |-> "unauthorized", invoked |-> FALSE]
  ELSE AdminHandler

\* the paths main registers admin handlers on
AdminPaths == {"/-/status", "/-/routes", "/-/auth", "/-/limits"}

\* values of APIGW_ADMIN_KEY: unset, or a key
AdminKeys == {"", "dev-admin-key", "other-key"}

\* values of r.Header.Get("X-Admin-Key")
AdminHeaders == {"", "dev-admin-key", "other-key", "dev-admin-key "}

\* no admin key, no admin request
AdminOff ==
  /\ adm = ""
  /\ adone = {}

\* ---- the local limiter under concurrent calls: internal/ratelimit

\* the goroutines calling Allow on the key
Callers == {"c1", "c2", "c3"}

\* a goroutine that has not called Allow
NotCalling ==
  [pc |-> "idle", rps |-> 0, burst |-> 0, cost |-> 0, lim |-> 0, i |-> 0,
   allowed |-> FALSE]

\* make(map[string]*memEntry): no entry for the key, none made, none deleted
NewMemoryLimiter == [m |-> 0, entries |-> <<>>, deleted |-> 0]

\* the local limiter has not been used
MemOff ==
  /\ mem = NewMemoryLimiter
  /\ callers = [c \in Callers |-> NotCalling]
  /\ mclock = 0

\* ---- the lock on the JWKS cache: internal/mw

\* the goroutines reading the cache in getKey
Readers == {"r1", "r2"}

\* sync.RWMutex, unlocked
Unlocked == [writer |-> FALSE, readers |-> {}]

\* RLock goes through whatever the writer does
RLockUnguarded(m) == TRUE

\* j.mu.RLock() goes through: no goroutine holds j.mu for writing
RLock(m) == ~m.writer

\* j.mu.Lock() goes through: no goroutine holds j.mu at all
WLock(m) == ~m.writer /\ m.readers = {}

\* the cache of a validator that has fetched nothing
EmptyCache == [keys |-> {}, fetchedAt |-> Never]

\* no refresh under way
NotRefreshing == [pc |-> "idle", doc |-> {}, next |-> {}]

\* a reader outside getKey
NotReading == [pc |-> "idle", keys |-> {}, fetchedAt |-> Never]

\* nobody is at the cache
SnapOff ==
  /\ mu = Unlocked
  /\ wr = NotRefreshing
  /\ rd = [r \in Readers |-> NotReading]
  /\ hist = {}

\* ---- the rate limit charged along the handler chain: cmd/gateway

\* the exchanges: a request with what awaits it further down the chain: the
\* limiter backend fails, the semaphore is full, the breaker is open
Exchanges ==
  [req : [remoteAddr : {"10.1.2.3:1234", "192.168.1.5:1234"},
          xff : {<<>>, <<"203.0.113.9", "10.1.2.3">>},
          xreal : {""},
          bearer : {"", "token-alice"}],
   backendErr : BOOLEAN, gateFull : BOOLEAN, breakerOpen : BOOLEAN]

\* a request on its way down the chain: nothing in its context, no key, no
\* answer, no stage entered
Arrived(e) ==
  [req |-> e.req, backendErr |-> e.backendErr, gateFull |-> e.gateFull,
   breakerOpen |-> e.breakerOpen, sub |-> Nil, key |-> <<>>, actor |-> "",
   limiter |-> "none", before |-> 0, after |-> 0, entry |-> NoEntry,
   stages |-> <<>>, status |-> 0, error |-> ""]

\* the composed handler h of route c from its i-th handler on, serving
\* exchange x against the limiter entries q: what has become of the exchange
\* when h returns.  RateLimit builds the key and calls limiter.Allow with
\* cost 1: a backend error lets the request on, a rejection answers 429.
RECURSIVE ServeCharging(_, _, _, _)
ServeCharging(c, q, i, x) ==
  LET s == Handlers(c)[i]
      y == [x EXCEPT !.stages = Append(@, s)]
  IN  CASE s = "ratelimit" ->
             LET k == RateLimitKey(c, ipr(<<>>), y.sub, y.req)
                 call == MemoryAllow(q[k.key], 0, c.rps, c.burst, Token)
                 z == [y EXCEPT !.key = k.key, !.actor = k.actor]
             IN  IF y.backendErr
                 THEN ServeCharging(c, q, i + 1, [z EXCEPT !.limiter = "error"])
                 ELSE LET w == [z EXCEPT
                                  !.before = LocalTokens(q[k.key], c),
                                  !.after = call.entry.tokens,
                                  !.entry = call.entry]
                      IN  IF call.dec.allowed
                          THEN ServeCharging(c, q, i + 1,
                                             [w EXCEPT !.limiter = "allowed"])
                          ELSE [w EXCEPT !.limiter = "rejected",
                                         !.status = 429,
                                         !.error = "rate_limited"]
        [] s = "auth" ->
             LET sub == ValidateBearer(y.req)
             IN  IF sub = Nil
                 THEN [y EXCEPT !.status = 401, !.error = "unauthorized"]
                 ELSE ServeCharging(c, q, i + 1, [y EXCEPT !.sub = sub])
        [] s = "concurrency" ->
             IF y.gateFull
             THEN [y EXCEPT !.status = 503, !.error = "too_busy"]
             ELSE ServeCharging(c, q, i + 1, y)
        [] s = "breaker" ->
             IF y.breakerOpen
             THEN [y EXCEPT !.status = 503, !.error = "circuit_open"]
             ELSE ServeCharging(c, q, i + 1, y)
        [] OTHER -> [y EXCEPT !.status = 200]

\* rate-limited routes: by scope, with or without auth, gate and breaker,
\* with no refill and a burst of 1 or 2
ChargedRoutes ==
  {[name |-> "r1", rlEnabled |-> TRUE, authRequired |-> a, brEnabled |-> b,
    maxInFlight |-> m, scope |-> sc, rps |-> 0, burst |-> n * Token] :
     a \in BOOLEAN, b \in BOOLEAN, m \in {0, 1}, sc \in {"ip", "user"},
     n \in {1, 2}}

\* the keys the route can charge
ChargeKeys(c) ==
  {RateLimitKey(c, ipr(<<>>), sub, e.req).key :
     sub \in {Nil, "alice"}, e \in Exchanges}

\* no request has been charged
ChargeOff ==
  /\ chain = [name |-> "", rlEnabled |-> FALSE, authRequired |-> FALSE,
              brEnabled |-> FALSE, maxInFlight |-> 0, scope |-> "ip",
              rps |-> 0, burst |-> 0]
  /\ quota = <<>>
  /\ billed = Arrived([req |-> [remoteAddr |-> "", xff |-> <<>>,
                                xreal |-> "", bearer |-> ""],
                       backendErr |-> FALSE, gateFull |-> FALSE,
                       breakerOpen |-> FALSE])

\* ---- initial state

\* the route the requests are for: fully protected, breaker only, or a
\* bare proxy
Routes ==
  {[rlEnabled |-> TRUE, authRequired |-> TRUE, brEnabled |-> TRUE,
    maxInFlight |-> MaxInFlight],
   [rlEnabled |-> FALSE, authRequired |-> FALSE, brEnabled |-> TRUE,
    maxInFlight |-> 0],
   [rlEnabled |-> FALSE, authRequired |-> FALSE, brEnabled |-> FALSE,
    maxInFlight |-> 0]}

PipelineInit ==
  /\ cfg \in Routes
  /\ now = 0
  /\ upstreamHealthy = FALSE
  /\ settledAtRecovery = FALSE
  /\ breaker = [state |-> "closed", fails |-> 0, opensAt |-> 0, halfInFlight |-> 0]
  /\ inUse = 0
  /\ pc = [r \in Reqs |-> "idle"]
  /\ pos = [r \in Reqs |-> 0]
  /\ reqNow = [r \in Reqs |-> 0]
  /\ resp = [r \in Reqs |-> NoResp]
  /\ panicked = [r \in Reqs |-> FALSE]
  /\ trace = [r \in Reqs |-> <<>>]
  /\ admittedIn = [r \in Reqs |-> "none"]
  /\ holds = [r \in Reqs |-> FALSE]
  /\ sent = NoSent
  /\ lastDone = "other"

\* no request is served: the pipeline of the bare proxy route at rest
PipelineOff == PipelineInit /\ ~cfg.brEnabled

Init ==
  /\ PipelineInit
  /\ ChargeOff
  /\ SnapOff
  /\ MemOff
  /\ AdminOff
  /\ AuthOff
  /\ LimiterOff
  /\ SharedOff
  /\ EdgeOff
  /\ RouterOff

\* ---- control flow helpers

Stage(r) == Handlers(cfg)[pos[r]]

AtEntry(r, s) == pc[r] = "enter" /\ Stage(r) = s
AtExit(r, s) == pc[r] = "exit" /\ Stage(r) = s

\* the step delivers no response and is no doneLocked
Quiet == sent' = NoSent /\ lastDone' = "other"

\* the handler at pos[r] calls next.ServeHTTP; tr is the trace so far, ad the
\* breaker state the request was admitted in
CallNext(r, tr, ad) ==
  /\ pc' = [pc EXCEPT ![r] = "enter"]
  /\ pos' = [pos EXCEPT ![r] = pos[r] + 1]
  /\ trace' = [trace EXCEPT ![r] = tr]
  /\ admittedIn' = [admittedIn EXCEPT ![r] = ad]
  /\ sent' = NoSent
  /\ UNCHANGED <<resp, panicked>>

\* the handler at pos[r] returns (p: by a panic) with rs written to the client.
\* Control resumes in the innermost caller that has work left; when there is
\* none the outermost handler has returned: the response is delivered and the
\* goroutine is free for the next request.
Return(r, p, rs, tr, ad) ==
  LET j == ResumeIdx(cfg, pos[r], p)
  IN  IF j = 0
      THEN /\ pc' = [pc EXCEPT ![r] = "idle"]
           /\ pos' = [pos EXCEPT ![r] = 0]
           /\ resp' = [resp EXCEPT ![r] = NoResp]
           /\ trace' = [trace EXCEPT ![r] = <<>>]
           /\ panicked' = [panicked EXCEPT ![r] = FALSE]
           /\ admittedIn' = [admittedIn EXCEPT ![r] = "none"]
           /\ sent' = [req |-> r, resp |-> rs, trace |-> tr]
      ELSE /\ pc' = [pc EXCEPT ![r] = "exit"]
           /\ pos' = [pos EXCEPT ![r] = j]
           /\ resp' = [resp EXCEPT ![r] = rs]
           /\ trace' = [trace EXCEPT ![r] = tr]
           /\ panicked' = [panicked EXCEPT ![r] = p]
           /\ admittedIn' = [admittedIn EXCEPT ![r] = ad]
           /\ sent' = NoSent

\* the wrapped handler has returned a failure that doneLocked has yet to count
FailedWaiting(r) ==
  /\ AtExit(r, "breaker")
  /\ ~Success(resp[r].status)

\* ---- actions

Tick ==
  /\ now < MaxTime
  /\ now' = now + 1
  /\ Quiet
  /\ UNCHANGED <<aside, cfg, env, breaker, inUse, reqVars>>

\* no failed request is waiting to be counted, and the clock of the model
\* still reaches the end of the open window
Settled ==
  /\ breaker.state = "open"
  /\ breaker.opensAt + OpenDuration <= MaxTime
  /\ \A r \in Reqs : ~FailedWaiting(r)

\* from now on the upstream answers every request with a status below 500
UpstreamRecovers ==
  /\ ~upstreamHealthy
  /\ upstreamHealthy' = TRUE
  /\ settledAtRecovery' = Settled
  /\ Quiet
  /\ UNCHANGED <<aside, cfg, now, breaker, inUse, reqVars>>

\* a free goroutine takes the next request: it matched the route and the
\* composed handler h is invoked.  Free goroutines are interchangeable, so the
\* request is given to the one of lowest index.
Start(r) ==
  /\ pc[r] = "idle"
  /\ \A q \in Reqs : q < r => pc[q] # "idle"
  /\ pc' = [pc EXCEPT ![r] = "enter"]
  /\ pos' = [pos EXCEPT ![r] = 1]
  /\ Quiet
  /\ UNCHANGED <<aside, cfg, now, env, breaker, inUse, reqNow, resp,
                 panicked, trace, admittedIn, holds>>

\* limiter.Allow returns (dec, err): allowed, rejected (429), or a backend
\* error (fail-open)
RateLimit(r) ==
  /\ AtEntry(r, "ratelimit")
  /\ LET tr == Append(trace[r], "ratelimit")
     IN  \E o \in Outcomes :
           LET ans == RateLimitAnswer(o.err, o.dec)
           IN  IF ans # NoResp
               THEN Return(r, FALSE, ans, tr, "none")
               ELSE CallNext(r, tr, "none")
  /\ lastDone' = "other"
  /\ UNCHANGED <<aside, cfg, now, env, breaker, inUse, reqNow, holds>>

\* auth.ValidateBearer: a subject, or an error answered with 401
RequireAuth(r) ==
  /\ AtEntry(r, "auth")
  /\ LET tr == Append(trace[r], "auth")
     IN  \E valid \in BOOLEAN :
           IF valid
           THEN CallNext(r, tr, "none")
           ELSE Return(r, FALSE,
                       [status |-> 401, error |-> "unauthorized", retryAfter |-> -1],
                       tr, "none")
  /\ lastDone' = "other"
  /\ UNCHANGED <<aside, cfg, now, env, breaker, inUse, reqNow, holds>>

\* if !sem.TryAcquire() { 503 too_busy; return }; defer sem.Release(); next
ConcurrencyLimit(r) ==
  /\ AtEntry(r, "concurrency")
  /\ LET a == TryAcquire(inUse, cfg)
         tr == Append(trace[r], "concurrency")
     IN  /\ inUse' = a.inUse
         /\ IF a.ok
            THEN /\ holds' = [holds EXCEPT ![r] = TRUE]
                 /\ CallNext(r, tr, "none")
            ELSE /\ holds' = holds
                 /\ Return(r, FALSE,
                           [status |-> 503, error |-> "too_busy", retryAfter |-> -1],
                           tr, "none")
  /\ lastDone' = "other"
  /\ UNCHANGED <<aside, cfg, now, env, breaker, reqNow>>

\* defer sem.Release()
SemRelease(r) ==
  /\ AtExit(r, "concurrency")
  /\ inUse' = Release(inUse)
  /\ holds' = [holds EXCEPT ![r] = FALSE]
  /\ Return(r, panicked[r], resp[r], trace[r], admittedIn[r])
  /\ lastDone' = "other"
  /\ UNCHANGED <<aside, cfg, now, env, breaker, reqNow>>

\* now := time.Now(), read before b.mu.Lock()
BreakerNow(r) ==
  /\ AtEntry(r, "breaker")
  /\ trace' = [trace EXCEPT ![r] = Append(@, "breaker")]
  /\ reqNow' = [reqNow EXCEPT ![r] = now]
  /\ pc' = [pc EXCEPT ![r] = "cb_allow"]
  /\ Quiet
  /\ UNCHANGED <<aside, cfg, now, env, breaker, inUse, pos, resp,
                 panicked, admittedIn, holds>>

\* b.mu.Lock(); allowed, retry := b.allowLocked(now); b.mu.Unlock()
\* if !allowed { Retry-After; 503 circuit_open; return }; next.ServeHTTP
BreakerAllow(r) ==
  /\ pc[r] = "cb_allow"
  /\ LET d == allowLocked(breaker, reqNow[r])
     IN  /\ breaker' = d.b
         /\ reqNow' = [reqNow EXCEPT ![r] = 0]
         /\ IF d.allowed
            THEN CallNext(r, trace[r], d.b.state)
            ELSE Return(r, FALSE,
                        [status |-> 503, error |-> "circuit_open",
                         retryAfter |-> RetryAfterHeader(d.retryAfter)],
                        trace[r], "none")
  /\ lastDone' = "other"
  /\ UNCHANGED <<aside, cfg, now, env, inUse, holds>>

\* b.mu.Lock(); b.doneLocked(success); b.mu.Unlock()
BreakerDone(r) ==
  /\ AtExit(r, "breaker")
  /\ breaker' = doneLocked(breaker, Success(resp[r].status), now)
  /\ lastDone' =
       IF breaker.state = "closed"
       THEN IF /\ FailedWaiting(r)
               /\ admittedIn[r] = "closed"
               /\ \E q \in Reqs \ {r} :
                    FailedWaiting(q) /\ admittedIn[q] = "closed"
            THEN "concurrent_failure"
            ELSE IF FailedWaiting(r) THEN "closed_failure" ELSE "closed_success"
       ELSE IF breaker.state = "half_open" /\ admittedIn[r] = "half_open"
            THEN IF FailedWaiting(r) THEN "probe_failure" ELSE "probe_success"
            ELSE "other"
  /\ Return(r, FALSE, resp[r], trace[r], "none")
  /\ UNCHANGED <<aside, cfg, now, env, inUse, reqNow, holds>>

\* route.Proxy.ServeHTTP: the upstream is contacted and answers, or the copy
\* of its response is aborted and the reverse proxy panics
Proxy(r) ==
  /\ AtEntry(r, "proxy")
  /\ LET tr == Append(trace[r], "proxy")
     IN  \/ \E s \in Statuses :
              /\ upstreamHealthy => Success(s)
              /\ Return(r, FALSE,
                        [status |-> s, error |-> "none", retryAfter |-> -1],
                        tr, admittedIn[r])
         \/ /\ ~upstreamHealthy
            /\ Return(r, TRUE,
                      [status |-> 0, error |-> "aborted", retryAfter |-> -1],
                      tr, admittedIn[r])
  /\ lastDone' = "other"
  /\ UNCHANGED <<aside, cfg, now, env, breaker, inUse, reqNow, holds>>

Step(r) ==
  \/ Start(r)
  \/ RateLimit(r)
  \/ RequireAuth(r)
  \/ ConcurrencyLimit(r)
  \/ BreakerNow(r)
  \/ BreakerAllow(r)
  \/ Proxy(r)
  \/ BreakerDone(r)
  \/ SemRelease(r)

Next ==
  \/ Tick
  \/ \E r \in Reqs : Step(r)

Spec == Init /\ [][Next]_vars

\* ---- the gateway under load with a recovering upstream

\* request r is let through by the rate limiter
PassesRateLimit(r) == RateLimit(r) /\ pc'[r] = "enter"

\* request r is let through by the authenticator
PassesAuth(r) == RequireAuth(r) /\ pc'[r] = "enter"

LiveNext ==
  \/ Tick
  \/ UpstreamRecovers
  \/ \E r \in LiveReqs : Step(r)

\* time passes, every request goroutine keeps running, and requests that the
\* rate limiter and the authenticator let through keep arriving
Fairness ==
  /\ WF_vars(Tick)
  /\ \A r \in LiveReqs :
       /\ WF_vars(Step(r))
       /\ SF_vars(PassesRateLimit(r))
       /\ SF_vars(PassesAuth(r))

LiveSpec == Init /\ [][LiveNext]_vars /\ Fairness

\* ---- the rate limiter on one key, both backends fed the same calls

LimiterInit ==
  /\ PipelineOff
  /\ ChargeOff
  /\ SnapOff
  /\ MemOff
  /\ AdminOff
  /\ AuthOff
  /\ SharedOff
  /\ EdgeOff
  /\ RouterOff
  /\ lim \in Limits
  /\ clock = 0
  /\ store = NoKey
  /\ entry = NoEntry
  /\ calls = <<>>

\* after a call the key is left alone for d milliseconds
Idle(d) ==
  /\ calls # <<>>
  /\ calls[Len(calls)].at = clock
  /\ clock' = clock + d
  /\ UNCHANGED <<vars_pipeline, chargeVars, snapVars, memVars, adminVars, authVars, sharedVars, edgeVars, routerVars, lim, store, entry,
                 calls>>

\* the ticker of gcLoop fires
Sweep ==
  /\ Evictable(entry, clock)
  /\ entry' = NoEntry
  /\ UNCHANGED <<vars_pipeline, chargeVars, snapVars, memVars, adminVars, authVars, sharedVars, edgeVars, routerVars, lim, clock, store, calls>>

\* the RateLimit middleware calls limiter.Allow(ctx, key, rps, burst, cost),
\* here on each backend, and answers; err: Eval fails and the script has not
\* run
Allow(cost, err) ==
  /\ Len(calls) < MaxCalls
  /\ LET r == tokenBucketLua(store, clock, clock, lim.rate, lim.burst, cost)
         m == MemoryAllow(entry, clock, lim.rate, lim.burst, cost)
     IN  /\ store' = IF err THEN store ELSE r.store
         /\ entry' = m.entry
         /\ calls' = Append(calls,
                        [at |-> clock, cost |-> cost, err |-> err,
                         fresh |-> ~Stored(store, clock), before |-> store,
                         remote |-> IF err THEN NoDecision
                                    ELSE RedisDecision(r.reply),
                         local |-> m.dec,
                         answer |-> RateLimitAnswer(err,
                                      IF err THEN NoDecision
                                      ELSE RedisDecision(r.reply)),
                         localAnswer |-> RateLimitAnswer(FALSE, m.dec)])
  /\ UNCHANGED <<vars_pipeline, chargeVars, snapVars, memVars, adminVars, authVars, sharedVars, edgeVars, routerVars, lim, clock>>

LimiterNext ==
  \/ \E d \in Idles : Idle(d)
  \/ Sweep
  \/ \E cost \in Costs, err \in BOOLEAN : Allow(cost, err)

LimiterSpec == LimiterInit /\ [][LimiterNext]_vars

\* ---- properties

Range(f) == {f[i] : i \in DOMAIN f}

\* request r takes a step of its own
Moves(r) == <<pc[r], pos[r]>> # <<pc'[r], pos'[r]>>

\* request r runs allowLocked / doneLocked in this step
AllowStep(r) == pc[r] = "cb_allow" /\ pc'[r] # "cb_allow"
DoneStep(r) == AtExit(r, "breaker") /\ Moves(r)

\* the request goes on to the handler the breaker wraps
Forwarded(r) == pc'[r] = "enter" /\ pos'[r] = pos[r] + 1

\* the answers under way and the one just delivered, each with the stages its
\* request went through
Answers ==
  {[resp |-> resp[r], trace |-> trace[r]] : r \in Reqs}
    \cup {[resp |-> sent.resp, trace |-> sent.trace]}

\* what has been written to the client of r, and the stages r went through,
\* after the step
RespAfter(r) == IF sent'.req = r THEN sent'.resp ELSE resp'[r]
TraceAfter(r) == IF sent'.req = r THEN sent'.trace ELSE trace'[r]

CircuitOpen(a) == a.resp.status = 503 /\ a.resp.error = "circuit_open"

\* C1: the semaphore's in_use never exceeds max_in_flight, and neither does
\* the number of requests that passed the gate and have not released yet.
C1_SemaphoreBounded ==
  /\ inUse <= cfg.maxInFlight
  /\ Cardinality({r \in Reqs : holds[r]}) <= cfg.maxInFlight

\* the gate is full and a request has been turned away with too_busy
C1_Witness ==
  /\ cfg.maxInFlight > 0
  /\ inUse = cfg.maxInFlight
  /\ Cardinality({r \in Reqs : holds[r]}) = cfg.maxInFlight
  /\ sent.resp.status = 503 /\ sent.resp.error = "too_busy"

EarlyRejections == {"unauthorized", "rate_limited", "too_busy"}

C3_HalfOpenBounded ==
  breaker.state = "half_open" => breaker.halfInFlight <= HalfOpenMaxInFlight

\* half-open with every probe slot taken and an arrival turned away
C3_Witness ==
  /\ breaker.state = "half_open"
  /\ breaker.halfInFlight = HalfOpenMaxInFlight
  /\ \E r \in Reqs : admittedIn[r] = "half_open"
  /\ \E a \in Answers : CircuitOpen(a)

\* C4: when failed requests admitted in CLOSED wait for doneLocked together,
\* each completion is counted: the count grows by exactly one per completion,
\* the breaker opens exactly when the count reaches the threshold, and the
\* other request's completion is still pending.
C4_ConcurrentFailuresCounted ==
  [][\A r, q \in Reqs :
       (/\ r # q
        /\ DoneStep(r)
        /\ breaker.state = "closed"
        /\ FailedWaiting(r) /\ admittedIn[r] = "closed"
        /\ FailedWaiting(q) /\ admittedIn[q] = "closed")
       => /\ breaker'.fails = breaker.fails + 1
          /\ (breaker'.state = "open") <=> (breaker.fails + 1 = FailureThreshold)
          /\ breaker'.state \in {"open", "closed"}
          /\ FailedWaiting(q)']_vars

\* the first of two concurrent failures has been counted, the second waits
C4_Witness ==
  /\ lastDone = "concurrent_failure"
  /\ breaker.fails = 1
  /\ \E q \in Reqs : FailedWaiting(q) /\ admittedIn[q] = "closed"

\* C5: in CLOSED a completion with status >= 500 adds one to the failure count
\* and opens the breaker (opens_at := now) exactly when the count reaches the
\* threshold; a completion with status < 500 (4xx, or no status written)
\* resets the count to 0 and leaves the breaker closed.
C5_ClosedCompletion ==
  [][\A r \in Reqs :
       (DoneStep(r) /\ breaker.state = "closed")
       => IF resp[r].status >= 500
          THEN /\ breaker'.fails = breaker.fails + 1
               /\ IF breaker.fails + 1 >= FailureThreshold
                  THEN breaker'.state = "open" /\ breaker'.opensAt = now
                  ELSE breaker'.state = "closed"
                       /\ breaker'.opensAt = breaker.opensAt
          ELSE /\ breaker'.fails = 0
               /\ breaker'.state = "closed"
               /\ breaker'.opensAt = breaker.opensAt]_vars

\* a 413 from the proxy has just completed through the closed breaker, which
\* stays closed with the count at 0
C5_Witness ==
  /\ lastDone = "closed_success"
  /\ sent.resp.status = 413 /\ "proxy" \in Range(sent.trace)
  /\ breaker.state = "closed" /\ breaker.fails = 0

\* C6: an arrival that finds the breaker OPEN with now - opens_at <
\* open_duration is rejected with 503 circuit_open, is not forwarded to the
\* proxy, and leaves the breaker as it was.
C6_OpenRejects ==
  /\ [][\A r \in Reqs :
          (/\ AllowStep(r)
           /\ breaker.state = "open"
           /\ reqNow[r] - breaker.opensAt < OpenDuration)
          => /\ RespAfter(r).status = 503
             /\ RespAfter(r).error = "circuit_open"
             /\ ~Forwarded(r)
             /\ TraceAfter(r) = trace[r]
             /\ breaker' = breaker]_vars
  /\ [](\A a \in Answers : CircuitOpen(a) => "proxy" \notin Range(a.trace))

\* a request is turned away while the breaker is open and the window runs
C6_Witness ==
  /\ breaker.state = "open"
  /\ now - breaker.opensAt < OpenDuration
  /\ \E a \in Answers : CircuitOpen(a) /\ a.resp.retryAfter >= 1

\* C7: the arrival that finds the breaker OPEN with now - opens_at >=
\* open_duration moves it to HALF_OPEN with the failure count 0 and is admitted
\* as the one probe in flight; an arrival in HALF_OPEN is admitted exactly when
\* half_open_in_flight < half_open_max, and is otherwise rejected with 503
\* circuit_open and Retry-After 1.
C7_HalfOpenAdmission ==
  [][\A r \in Reqs :
       /\ (/\ AllowStep(r)
           /\ breaker.state = "open"
           /\ reqNow[r] - breaker.opensAt >= OpenDuration)
          => /\ breaker' = [state |-> "half_open", fails |-> 0,
                            opensAt |-> breaker.opensAt, halfInFlight |-> 1]
             /\ Forwarded(r)
             /\ resp'[r] = resp[r]
       /\ (AllowStep(r) /\ breaker.state = "half_open")
          => IF breaker.halfInFlight < HalfOpenMaxInFlight
             THEN /\ Forwarded(r)
                  /\ breaker' = [breaker EXCEPT !.halfInFlight = @ + 1]
             ELSE /\ ~Forwarded(r)
                  /\ breaker' = breaker
                  /\ RespAfter(r) = [status |-> 503, error |-> "circuit_open",
                                     retryAfter |-> 1]]_vars

\* the probe slots are taken by admitted probes and a later arrival was
\* turned away with Retry-After 1
C7_Witness ==
  /\ breaker.state = "half_open" /\ breaker.fails = 0
  /\ breaker.halfInFlight = HalfOpenMaxInFlight
  /\ \E r \in Reqs : admittedIn[r] = "half_open" /\ AtEntry(r, "proxy")
  /\ \E a \in Answers : CircuitOpen(a) /\ a.resp.retryAfter = 1

\* C8: a probe completing in HALF_OPEN closes the breaker with the failure
\* count 0 on success, re-opens it with opens_at := now and the count at the
\* threshold on failure, and gives back exactly one probe slot either way.
C8_ProbeCompletion ==
  [][\A r \in Reqs :
       (DoneStep(r) /\ breaker.state = "half_open" /\ admittedIn[r] = "half_open")
       => /\ breaker'.halfInFlight = breaker.halfInFlight - 1
          /\ IF resp[r].status < 500
             THEN /\ breaker'.state = "closed"
                  /\ breaker'.fails = 0
                  /\ breaker'.opensAt = breaker.opensAt
             ELSE /\ breaker'.state = "open"
                  /\ breaker'.fails = FailureThreshold
                  /\ breaker'.opensAt = now]_vars

\* a probe has just failed and re-opened the breaker
C8_Witness ==
  /\ lastDone = "probe_failure"
  /\ breaker.state = "open"
  /\ breaker.fails = FailureThreshold
  /\ breaker.opensAt = now

\* C9: once the upstream has stopped failing (no failure is left to count),
\* with requests still arriving an OPEN breaker eventually becomes CLOSED.
C9_OpenEventuallyCloses ==
  (upstreamHealthy /\ Settled) ~> (breaker.state = "closed")

\* the upstream recovered while the breaker was open, and the breaker closed
C9_Witness ==
  /\ upstreamHealthy /\ settledAtRecovery
  /\ breaker.state = "closed" /\ breaker.fails = 0
  /\ lastDone = "probe_success"

\* the order of the stages as stated
StatedOrder == <<"ratelimit", "auth", "concurrency", "breaker", "proxy">>

Configured(s) ==
  CASE s = "ratelimit"   -> cfg.rlEnabled
    [] s = "auth"        -> cfg.authRequired
    [] s = "concurrency" -> cfg.maxInFlight > 0
    [] s = "breaker"     -> cfg.brEnabled
    [] s = "proxy"       -> TRUE

RejectingStage(e) ==
  CASE e = "rate_limited" -> "ratelimit"
    [] e = "unauthorized" -> "auth"
    [] e = "too_busy"     -> "concurrency"
    [] e = "circuit_open" -> "breaker"

SharedInit ==
  /\ PipelineOff
  /\ ChargeOff
  /\ SnapOff
  /\ MemOff
  /\ AdminOff
  /\ AuthOff
  /\ lim \in Limits
  /\ clock = 0
  /\ store = NoKey
  /\ entry = NoEntry
  /\ calls = <<>>
  /\ SharedOff
  /\ EdgeOff
  /\ RouterOff

InFlight == {g \in Gateways : gw[g].pc = "sent"}

\* gateway g enters RedisLimiter.Allow: it reads now and sends the Eval
Send(g) ==
  /\ gw[g].pc = "idle"
  /\ Len(evals) + Cardinality(InFlight) < MaxCalls
  /\ gw' = [gw EXCEPT ![g] = [pc |-> "sent", now_ms |-> clock, cost |-> Token,
                              seen |-> store]]
  /\ UNCHANGED <<vars_pipeline, chargeVars, snapVars, memVars, adminVars, authVars, limiterVars, edgeVars, routerVars, evals>>

\* the script reads the hash as another run left it when the call was sent
HashReadStale(g) == gw[g].seen

\* redis.call("HMGET", ...) inside the script: the hash as it is now
HashRead(g) == store

\* the store runs the script for the call of g, in one piece, and g returns
Eval(g) ==
  /\ gw[g].pc = "sent"
  /\ LET r == tokenBucketLua(HashRead(g), clock, gw[g].now_ms, lim.rate,
                             lim.burst, gw[g].cost)
     IN  /\ store' = r.store
         /\ evals' = Append(evals,
                        [g |-> g, at |-> gw[g].now_ms, cost |-> gw[g].cost,
                         with |-> InFlight \ {g},
                         fresh |-> ~Stored(store, clock), before |-> store,
                         dec |-> RedisDecision(r.reply)])
  /\ gw' = [gw EXCEPT ![g] = NoEval]
  /\ UNCHANGED <<vars_pipeline, chargeVars, snapVars, memVars, adminVars, authVars, edgeVars, routerVars, lim, clock, entry, calls>>

\* time passes: d milliseconds while an Eval is on its way, or after a run
\* of the script
Elapse(d) ==
  /\ \/ \E g \in InFlight : gw[g].now_ms = clock /\ d \in Latencies
     \/ InFlight = {} /\ evals # <<>> /\ store.ts = clock
  /\ clock' = clock + d
  /\ UNCHANGED <<vars_pipeline, chargeVars, snapVars, memVars, adminVars, authVars, sharedVars, edgeVars, routerVars, lim, store, entry,
                 calls>>

SharedNext ==
  \/ \E g \in Gateways : Send(g)
  \/ \E g \in Gateways : Eval(g)
  \/ \E d \in Idles : Elapse(d)

SharedSpec == SharedInit /\ [][SharedNext]_vars

\* ---- requests keyed for the rate limiter

EdgeInit ==
  /\ PipelineOff
  /\ ChargeOff
  /\ SnapOff
  /\ MemOff
  /\ AdminOff
  /\ AuthOff
  /\ LimiterOff
  /\ SharedOff
  /\ RouterOff
  /\ edge \in [route : KeyedRoutes, proxies : {<<>>}, trusted : TrustedSets]
  /\ served = {}

\* the catch-all handler serves a request on the route
Serve(req) ==
  /\ Cardinality(served) < MaxServed
  /\ served' = served \cup
                 {ServeFrom(edge.route, edge.trusted, 1, Incoming(req))}
  /\ UNCHANGED <<vars_pipeline, chargeVars, snapVars, memVars, adminVars, authVars, limiterVars, sharedVars, routerVars, edge>>

EdgeNext == \E req \in Requests : Serve(req)

EdgeSpec == EdgeInit /\ [][EdgeNext]_vars

\* ---- requests keyed by the running gateway

\* the route handler as main builds it from the configuration
GatewayEdgeInit ==
  /\ PipelineOff
  /\ ChargeOff
  /\ SnapOff
  /\ MemOff
  /\ AdminOff
  /\ AuthOff
  /\ LimiterOff
  /\ SharedOff
  /\ RouterOff
  /\ edge \in {[route |-> r, proxies |-> tp, trusted |-> ipr(tp)] :
                 r \in KeyedRoutes, tp \in ProxyLists}
  /\ served = {}

GatewayEdgeSpec == GatewayEdgeInit /\ [][EdgeNext]_vars

\* ---- the token bucket

\* the step is an Allow call, and the call it appends to calls
Called == Len(calls') = Len(calls) + 1
NewCall == calls'[Len(calls')]

\* calls j..k are unit-cost calls made at one instant that the store has
\* answered, the first of them on a key with no stored state
UnitRun(j, k) ==
  /\ j \in 1..Len(calls) /\ k \in j..Len(calls)
  /\ calls[j].fresh
  /\ \A i \in j..k :
       calls[i].cost = Token /\ ~calls[i].err /\ calls[i].at = calls[j].at

\* the tokens the claim gives the bucket before the decision: burst on a key
\* with no stored state, else the stored tokens plus rps for the time since the
\* last refill, capped at burst
StatedTokens ==
  IF ~Stored(store, clock) THEN lim.burst
  ELSE Min(lim.burst, store.tokens + (clock - store.ts) * lim.rate)

\* C11: the remote decision: a key with no stored state starts with burst
\* tokens, a stored one is refilled by (now_ms - last_refill_ms)/1000 * rps up
\* to burst; the call is allowed, and its cost deducted, exactly when the
\* refilled tokens are at least cost.  So of the unit-cost calls made on a
\* fresh key at one instant the first floor(burst) are allowed and the next
\* ones rejected.
C11_RemoteDecision ==
  /\ [][Called /\ ~NewCall.err =>
          /\ NewCall.remote.allowed <=> StatedTokens >= NewCall.cost
          /\ store'.tokens = IF StatedTokens >= NewCall.cost
                             THEN StatedTokens - NewCall.cost
                             ELSE StatedTokens
          /\ store'.ts = clock]_vars
  /\ [](\A j, k \in 1..Len(calls) :
          UnitRun(j, k) =>
            (calls[k].remote.allowed <=> (k - j + 1) * Token <= lim.burst))

\* a burst of 2.5: two unit-cost calls on the fresh key are allowed, the third
\* at the same instant is rejected
C11_Witness ==
  /\ lim.burst = 2 * Token + Token \div 2
  /\ UnitRun(1, 3)
  /\ calls[1].remote.allowed /\ calls[2].remote.allowed
  /\ ~calls[3].remote.allowed
  /\ store.tokens = Token \div 2

\* the unit-cost calls among calls i..j that the backend allowed
Granted(backend, i, j) ==
  {k \in i..j : /\ calls[k].cost = Token
                /\ IF backend = "remote"
                   THEN ~calls[k].err /\ calls[k].remote.allowed
                   ELSE calls[k].local.allowed}

\* n tokens are no more than burst + rps * T, for T in milliseconds
WithinRate(n, T) ==
  IF lim.rate > 0 /\ T > (n * Token) \div lim.rate THEN TRUE
  ELSE n * Token <= lim.burst + lim.rate * T

\* C12: token-bucket accuracy on one key over any sequence of calls and idle
\* periods, eviction of the local entry and expiry of the remote key
\* included: for rps > 0, on either backend the unit-cost calls allowed in any
\* window of length T number at most burst + rps * T.
C12_WindowBound ==
  lim.rate > 0 =>
    \A backend \in {"remote", "local"} :
      \A i, j \in 1..Len(calls) :
        i <= j =>
          WithinRate(Cardinality(Granted(backend, i, j)),
                     calls[j].at - calls[i].at)

\* the tokens the remote bucket held when it decided call k
TokensAt(k) ==
  LET c == calls[k]
  IN  IF c.fresh THEN lim.burst
      ELSE Min(lim.burst, c.before.tokens + (c.at - c.before.ts) * lim.rate)

\* ceil((cost - tokens) / rps) seconds, or 1 when rps = 0
StatedRetry(cost, tokens) ==
  IF lim.rate = 0 THEN 1
  ELSE (cost - tokens + lim.rate * MsPerSec - 1) \div (lim.rate * MsPerSec)

\* C13: the local and the remote backend have identical semantics: fed the
\* same sequence of calls at the same times they return the same allowed
\* flag, the same remaining value and the same retry_after_seconds, which on
\* rejection is ceil((cost - tokens)/rps), or 1 when rps = 0.
C13_BackendsAgree ==
  \A k \in 1..Len(calls) :
    ~calls[k].err =>
      /\ calls[k].local.allowed = calls[k].remote.allowed
      /\ calls[k].local.remaining = calls[k].remote.remaining
      /\ calls[k].local.retryAfterSeconds = calls[k].remote.retryAfterSeconds
      /\ ~calls[k].remote.allowed =>
           calls[k].remote.retryAfterSeconds
             = StatedRetry(calls[k].cost, TokensAt(k))

\* runs i and i + 1 of the script are for concurrent calls of two gateways:
\* the second call had been sent when the script ran for the first
Concurrent(i) ==
  /\ i \in 1..Len(evals) - 1
  /\ evals[i + 1].g # evals[i].g
  /\ evals[i + 1].g \in evals[i].with

\* the tokens the bucket held when the script decided run i
HeldAt(i) ==
  LET e == evals[i]
  IN  IF e.fresh THEN lim.burst
      ELSE Min(lim.burst,
               e.before.tokens + Elapsed(e.at, e.before.ts) * lim.rate)

\* the tokens there are for calls i and i + 1: those held at run i and what
\* is refilled from the now_ms of the first call to that of the second
AtStake(i) ==
  HeldAt(i) + Elapsed(evals[i + 1].at, evals[i].at) * lim.rate

\* there are tokens for exactly one of the calls i and i + 1
OneLeft(i) == HeldAt(i) >= Token /\ AtStake(i) < 2 * Token

\* C14: two gateways calling Allow concurrently on the same key are
\* serialized by the script: when the bucket holds tokens for exactly one
\* more request, at most one of the two calls is allowed.
C14_LastTokenOnce ==
  \A i \in 1..Len(evals) - 1 :
    Concurrent(i) /\ OneLeft(i) =>
      ~(evals[i].dec.allowed /\ evals[i + 1].dec.allowed)

\* both gateways had their call in flight, the bucket held one token: the
\* first run of the script took it, the second was rejected
C14_Witness ==
  \E i \in 1..Len(evals) - 1 :
    /\ Concurrent(i)
    /\ OneLeft(i)
    /\ evals[i].dec.allowed
    /\ ~evals[i + 1].dec.allowed

\* C15: when the limiter backend returns an error the rate-limit stage fails
\* open: the middleware calls the next handler, as it does for an allowed
\* call, and writes no 429.
C15_FailOpen ==
  \A k \in 1..Len(calls) :
    calls[k].err =>
      /\ calls[k].answer = NoResp
      /\ calls[k].answer.status # 429
      /\ calls[k].answer
           = RateLimitAnswer(FALSE, [NoDecision EXCEPT !.allowed = TRUE])

\* the store fails on a call that it would have rejected, the bucket being
\* empty: the request is passed on
C15_Witness ==
  \E k \in 2..Len(calls) :
    /\ calls[k].err
    /\ calls[k].answer = NoResp
    /\ calls[k].at = calls[k - 1].at
    /\ ~calls[k - 1].err
    /\ calls[k - 1].answer.status = 429

\* C16: every request the rate limiter rejects is answered with 429 and a
\* Retry-After of at least 1 second: retry_after_seconds >= 1 for every
\* rejected decision, on both backends, for every rps > 0 and every token
\* deficit.
C16_RetryAfterAtLeastOne ==
  lim.rate > 0 =>
    \A k \in 1..Len(calls) :
      /\ ~calls[k].err /\ ~calls[k].remote.allowed =>
           /\ calls[k].remote.retryAfterSeconds >= 1
           /\ calls[k].answer.status = 429
           /\ calls[k].answer.retryAfter >= 1
      /\ ~calls[k].local.allowed =>
           /\ calls[k].local.retryAfterSeconds >= 1
           /\ calls[k].localAnswer.status = 429
           /\ calls[k].localAnswer.retryAfter >= 1

\* ---- client address and rate-limit key

\* C17: on a route with rate-limit scope user (and auth required), a request
\* carrying a valid bearer token is limited under the key
\* rl:<route>:u:<subject>, scope reported as user, so two authenticated
\* subjects behind one client IP draw from different buckets; the ip key is
\* used only when there is no authenticated subject.
C17_UserScopeKey ==
  edge.route.scope = "user" /\ edge.route.authRequired =>
    /\ \A x \in served :
         ValidateBearer(x.req) # Nil =>
           /\ x.key = <<"rl", edge.route.name, "u", ValidateBearer(x.req)>>
           /\ x.actor = "user"
    /\ \A x \in served : x.actor = "ip" => ValidateBearer(x.req) = Nil
    /\ \A x, y \in served :
         /\ ValidateBearer(x.req) # Nil /\ ValidateBearer(y.req) # Nil
         /\ ValidateBearer(x.req) # ValidateBearer(y.req)
         => x.key # y.key

\* the peer of the request is an address in the trusted set
TrustedPeer(req) ==
  /\ parseRemoteIP(req.remoteAddr) # Nil
  /\ ~edge.trusted.nil
  /\ \E n \in edge.trusted.nets : NetContains(n, parseRemoteIP(req.remoteAddr))

\* the host of RemoteAddr, RemoteAddr itself when it holds no address
RemoteHost(req) ==
  IF parseRemoteIP(req.remoteAddr) # Nil
  THEN IPString(parseRemoteIP(req.remoteAddr))
  ELSE req.remoteAddr

\* C20: client-IP resolution ignores the forwarded headers of an untrusted
\* peer: requests with the same RemoteAddr outside the trusted set, or with
\* no trusted set, resolve to the same client IP, the RemoteAddr host,
\* whatever X-Forwarded-For and X-Real-Ip hold; only for a peer inside the
\* trusted set is the leftmost X-Forwarded-For entry used, with X-Real-Ip as
\* fallback.
C20_UntrustedHeadersIgnored ==
  /\ \A x \in served :
       x.ip = IF ~TrustedPeer(x.req) THEN RemoteHost(x.req)
              ELSE IF /\ x.req.xff # <<>>
                      /\ ParseIP(TrimSpace(x.req.xff[1])) # Nil
                   THEN IPString(ParseIP(TrimSpace(x.req.xff[1])))
              ELSE IF ParseIP(TrimSpace(x.req.xreal)) # Nil
                   THEN IPString(ParseIP(TrimSpace(x.req.xreal)))
              ELSE RemoteHost(x.req)
  /\ \A x, y \in served :
       /\ x.req.remoteAddr = y.req.remoteAddr
       /\ ~TrustedPeer(x.req)
       => x.ip = y.ip

\* two requests from one untrusted peer, one without forwarded headers and one
\* naming another client in both of them, resolve to the peer's address
C20_Witness ==
  \E x, y \in served :
    /\ ~edge.trusted.nil /\ edge.trusted.nets # {}
    /\ x.req.remoteAddr = "192.168.1.5:1234"
    /\ y.req.remoteAddr = "192.168.1.5:1234"
    /\ x.req.xff = <<>> /\ x.req.xreal = ""
    /\ y.req.xff = <<"203.0.113.9", "10.1.2.3">>
    /\ y.req.xreal = "198.51.100.7"
    /\ x.ip = "192.168.1.5" /\ y.ip = "192.168.1.5"

\* ---- a router built from a route table and asked for paths

\* any route table as configured, any request path
RouterInit ==
  /\ PipelineOff
  /\ ChargeOff
  /\ SnapOff
  /\ MemOff
  /\ AdminOff
  /\ AuthOff
  /\ LimiterOff
  /\ SharedOff
  /\ EdgeOff
  /\ rtr \in {[NoRouter EXCEPT !.routes = RoutesOf(table)] : table \in Tables}
  /\ probe \in {[NoProbe EXCEPT !.path = path] : path \in Strings(MaxPathLen)}

\* main builds the router from the configured routes
Build ==
  /\ ~rtr.built /\ ~rtr.err
  /\ rtr' \in New(rtr.routes)
  /\ UNCHANGED <<vars_pipeline, chargeVars, snapVars, memVars, adminVars, authVars, limiterVars, sharedVars, edgeVars, probe>>

\* the catch-all handler looks the request path up
Lookup ==
  /\ rtr.built
  /\ probe' = [probe EXCEPT !.op = "Match", !.route = Match(rtr, probe.path)]
  /\ UNCHANGED <<vars_pipeline, chargeVars, snapVars, memVars, adminVars, authVars, limiterVars, sharedVars, edgeVars, rtr>>

RouterNext ==
  \/ Build
  \/ Lookup

RouterSpec == RouterInit /\ [][RouterNext]_vars

\* ---- StripPath applied to paths and prefixes

\* any path, any strip_prefix
StripInit ==
  /\ PipelineOff
  /\ ChargeOff
  /\ SnapOff
  /\ MemOff
  /\ AdminOff
  /\ AuthOff
  /\ LimiterOff
  /\ SharedOff
  /\ EdgeOff
  /\ rtr = NoRouter
  /\ probe \in {[NoProbe EXCEPT !.path = path, !.strip = strip] :
                  path \in Strings(MaxPathLen),
                  strip \in Strings(MaxPrefixLen)}

\* the base proxy handler rewrites the path
Strip ==
  /\ probe' = [probe EXCEPT !.op = "StripPath",
                            !.out = StripPath(probe.path, probe.strip)]
  /\ UNCHANGED <<vars_pipeline, chargeVars, snapVars, memVars, adminVars, authVars, limiterVars, sharedVars, edgeVars, rtr>>

StripNext == Strip

StripSpec == StripInit /\ [][StripNext]_vars

\* the prefixes of the table that are prefixes of the path
Matching(path) ==
  {rtr.routes[i].PathPrefix : i \in
     {k \in 1..Len(rtr.routes) : HasPrefix(path, rtr.routes[k].PathPrefix)}}

\* C18: for any route table and any request path p, Match(p) returns a route
\* of the table whose path_prefix is the longest prefix of p among the
\* path_prefix of all routes of the table, and returns nil exactly when no
\* route's path_prefix is a prefix of p.
C18_LongestPrefix ==
  probe.op = "Match" =>
    /\ probe.route.nil <=> Matching(probe.path) = {}
    /\ ~probe.route.nil =>
         /\ \E i \in 1..Len(rtr.routes) : rtr.routes[i] = probe.route
         /\ probe.route.PathPrefix \in Matching(probe.path)
         /\ \A q \in Matching(probe.path) :
              Len(q) <= Len(probe.route.PathPrefix)

\* the table lists the shorter of two matching prefixes first and Match
\* returns the route of the longer one
C18_Witness ==
  /\ probe.op = "Match"
  /\ Len(rtr.routes) = 2
  /\ \E i, j \in 1..2 :
       /\ rtr.routes[i].Name = 1 /\ rtr.routes[j].Name = 2
       /\ rtr.routes[i].PathPrefix = <<"/">>
       /\ rtr.routes[j].PathPrefix = <<"/", "a">>
  /\ probe.path = <<"/", "a", "/">>
  /\ probe.route.Name = 2

\* C19: StripPath(path, strip): when strip is not empty and is a prefix of
\* path, the result is path with that prefix removed, or "/" if nothing
\* remains; when strip is empty or not a prefix of path, the result is path
\* unchanged.
C19_StripPath ==
  probe.op = "StripPath" =>
    IF probe.strip # <<>> /\ HasPrefix(probe.path, probe.strip)
    THEN /\ Len(probe.path) > Len(probe.strip) =>
              probe.strip \o probe.out = probe.path
         /\ Len(probe.path) = Len(probe.strip) => probe.out = <<"/">>
    ELSE probe.out = probe.path

\* a path equal to its strip prefix becomes "/"
C19_Witness ==
  /\ probe.op = "StripPath"
  /\ probe.path = <<"/", "a">>
  /\ probe.strip = <<"/", "a">>
  /\ probe.out = <<"/">>

\* the immediate peer of the request is listed in server.trusted_proxies
ListedPeer(req) ==
  /\ parseRemoteIP(req.remoteAddr) # Nil
  /\ \E i \in 1..Len(edge.proxies) :
       NetContains(edge.proxies[i], parseRemoteIP(req.remoteAddr))

\* C21: in the running gateway, when server.trusted_proxies contains the
\* address of the immediate peer, an ip-scoped rate limit is keyed by the
\* leftmost X-Forwarded-For address of the request, not by the peer's
\* RemoteAddr; when trusted_proxies is empty the key uses RemoteAddr.
C21_TrustedProxiesKey ==
  edge.route.scope = "ip" =>
    \A x \in served :
      /\ /\ ListedPeer(x.req)
         /\ x.req.xff # <<>>
         /\ ParseIP(TrimSpace(x.req.xff[1])) # Nil
         => x.key = <<"rl", edge.route.name, "ip",
                      IPString(ParseIP(TrimSpace(x.req.xff[1])))>>
      /\ edge.proxies = <<>> =>
           x.key = <<"rl", edge.route.name, "ip", RemoteHost(x.req)>>

\* ---- requests on the admin paths

AdminInit ==
  /\ PipelineOff
  /\ ChargeOff
  /\ SnapOff
  /\ MemOff
  /\ LimiterOff
  /\ SharedOff
  /\ EdgeOff
  /\ RouterOff
  /\ AuthOff
  /\ adm \in AdminKeys
  /\ adone = {}

\* wrapAdmin(routeName, h) serves a request
AdminServe(path, header) ==
  /\ Cardinality(adone) < MaxAdminServed
  /\ adone' = adone \cup
                {[path |-> path, header |-> header,
                  status |-> RequireAdminKey(adm, header).status,
                  error |-> RequireAdminKey(adm, header).error,
                  invoked |-> RequireAdminKey(adm, header).invoked]}
  /\ UNCHANGED <<vars_pipeline, chargeVars, snapVars, memVars, authVars, limiterVars, sharedVars, edgeVars,
                 routerVars, adm>>

AdminNext ==
  \E path \in AdminPaths, header \in AdminHeaders : AdminServe(path, header)

AdminSpec == AdminInit /\ [][AdminNext]_vars

\* ---- the JWKS cache under concurrent validations

JwksInit ==
  /\ PipelineOff
  /\ ChargeOff
  /\ SnapOff
  /\ MemOff
  /\ AdminOff
  /\ LimiterOff
  /\ SharedOff
  /\ EdgeOff
  /\ RouterOff
  /\ ClaimsOff
  /\ jwks = [keys |-> {}, fetchedAt |-> Never]
  /\ idp \in Docs
  /\ vnow = 0
  /\ vals = [g \in Validators |-> Idling]
  /\ vlast = NoLast

\* what Validate returns to goroutine g for token tok when getKey has ended
\* with key and keyErr along path
Returned(g, tok, path, key, keyErr, freshAtRead) ==
  [g |-> g, tok |-> tok, path |-> path, key |-> key, keyErr |-> keyErr,
   freshAtRead |-> freshAtRead,
   sub |-> ValidateWith(Validator, tok, key, vnow).sub,
   err |-> ValidateWith(Validator, tok, key, vnow).err]

\* Validate is called: the token is parsed and, if the parser asks for the
\* key, getKey reads the cache
Begin(g, tok) ==
  /\ vals[g].pc = "idle"
  /\ IF ~tok.wellFormed \/ ~MethodValid(Validator, tok) \/ tok.kid = ""
     THEN /\ vlast' = Returned(g, tok, "parse", NoKeyFound, NoErr, FALSE)
          /\ vals' = vals
     ELSE IF FirstRead(Validator, jwks, tok.kid, vnow) # NoKeyFound
     THEN /\ vlast' = Returned(g, tok, "cached",
                               FirstRead(Validator, jwks, tok.kid, vnow),
                               NoErr, Fresh(Validator, jwks, vnow))
          /\ vals' = vals
     ELSE /\ vlast' = NoLast
          /\ vals' = [vals EXCEPT ![g] = [Idling EXCEPT !.pc = "refresh",
                                                        !.tok = tok]]
  /\ UNCHANGED <<vars_pipeline, chargeVars, snapVars, memVars, adminVars, claimsVars, limiterVars, sharedVars, edgeVars,
                 routerVars, jwks, idp, vnow>>

\* refresh runs, alone under refreshMu; expired: the fetchedAt of the cache it
\* found expired when it asked for the document
Refresh(g, kind) ==
  /\ vals[g].pc = "refresh"
  /\ jwks' = refresh(Validator, jwks, vnow, FetchResult(kind)).cache
  /\ vals' = [vals EXCEPT
                ![g].pc = "reread",
                ![g].err = refresh(Validator, jwks, vnow,
                                   FetchResult(kind)).err,
                ![g].fetched = refresh(Validator, jwks, vnow,
                                       FetchResult(kind)).fetched,
                ![g].expired = IF refresh(Validator, jwks, vnow,
                                          FetchResult(kind)).fetched
                               THEN jwks.fetchedAt ELSE Never]
  /\ vlast' = NoLast
  /\ UNCHANGED <<vars_pipeline, chargeVars, snapVars, memVars, adminVars, claimsVars, limiterVars, sharedVars, edgeVars,
                 routerVars, idp, vnow>>

\* getKey reads the cache again and Validate finishes
Reread(g) ==
  /\ vals[g].pc = "reread"
  /\ vlast' = Returned(g, vals[g].tok,
                       IF vals[g].err # NoErr THEN "failed"
                       ELSE IF vals[g].fetched THEN "fetched" ELSE "skipped",
                       SecondRead(jwks, vals[g].tok.kid, vals[g].err).key,
                       SecondRead(jwks, vals[g].tok.kid, vals[g].err).err,
                       Fresh(Validator, jwks, vnow))
  /\ vals' = [vals EXCEPT ![g] = Idling]
  /\ UNCHANGED <<vars_pipeline, chargeVars, snapVars, memVars, adminVars, claimsVars, limiterVars, sharedVars, edgeVars,
                 routerVars, jwks, idp, vnow>>

\* the key server publishes another document
Publish(doc) ==
  /\ doc # idp
  /\ idp' = doc
  /\ vlast' = NoLast
  /\ UNCHANGED <<vars_pipeline, chargeVars, snapVars, memVars, adminVars, claimsVars, limiterVars, sharedVars, edgeVars,
                 routerVars, jwks, vnow, vals>>

\* a second passes
Pass ==
  /\ vnow < MaxClock
  /\ vnow' = vnow + 1
  /\ vlast' = NoLast
  /\ UNCHANGED <<vars_pipeline, chargeVars, snapVars, memVars, adminVars, claimsVars, limiterVars, sharedVars, edgeVars,
                 routerVars, jwks, idp, vals>>

JwksNext ==
  \/ \E g \in Validators, tok \in SignedTokens : Begin(g, tok)
  \/ \E g \in Validators, kind \in FetchKinds : Refresh(g, kind)
  \/ \E g \in Validators : Reread(g)
  \/ \E doc \in Docs : Publish(doc)
  \/ Pass

JwksSpec == JwksInit /\ [][JwksNext]_vars

\* ---- one token validated against the key found for its kid

\* any options, any claims on a well-signed token, or a good set of claims on
\* a token that is not; the key function finds the key K1 or none
ClaimsInit ==
  /\ PipelineOff
  /\ ChargeOff
  /\ SnapOff
  /\ MemOff
  /\ AdminOff
  /\ LimiterOff
  /\ SharedOff
  /\ EdgeOff
  /\ RouterOff
  /\ JwksOff
  /\ vin \in [opts : Options,
              tok : {GoodToken(c) : c \in ClaimSets} \cup BadTokens,
              key : {"K1"}, now : 0..MaxStamp]
            \cup
            [opts : Options, tok : {GoodToken(GoodClaims)},
             key : {NoKeyFound}, now : 0..MaxStamp]
  /\ vout = NoVerdict

\* Validate(ctx, tokenStr)
Check ==
  /\ vout' = [called |-> TRUE,
              sub |-> ValidateWith(NewJWKSValidator(vin.opts), vin.tok,
                                   vin.key, vin.now).sub,
              err |-> ValidateWith(NewJWKSValidator(vin.opts), vin.tok,
                                   vin.key, vin.now).err]
  /\ UNCHANGED <<vars_pipeline, chargeVars, snapVars, memVars, adminVars, jwksVars, limiterVars, sharedVars, edgeVars,
                 routerVars, vin>>

ClaimsNext == Check

ClaimsSpec == ClaimsInit /\ [][ClaimsNext]_vars

\* twice the value of a numeric claim, which is kept in half seconds
Present(v) == v.t = "number"

\* the audiences a token names: the string, or the strings of the array
Named(v) ==
  CASE v.t = "string" -> {v.s}
    [] v.t = "array"  -> {v.a[k] : k \in 1..Len(v.a)} \ {NotAString}
    [] OTHER          -> {}

\* what the claim requires of a token for its subject to be returned
Acceptable ==
  LET c == vin.tok.claims
      o == vin.opts
  IN  /\ vin.tok.wellFormed
      /\ vin.tok.alg \in o.ValidAlgs
      /\ vin.key # NoKeyFound /\ vin.tok.kid # "" /\ vin.tok.sig = vin.key
      /\ o.Issuers # {} => c.iss.t = "string" /\ c.iss.s \in o.Issuers
      /\ o.Audiences # {} => Named(c.aud) \cap o.Audiences # {}
      /\ Present(c.exp) /\ 2 * vin.now <= c.exp.h + 2 * o.Leeway
      /\ Present(c.nbf) => 2 * vin.now >= c.nbf.h - 2 * o.Leeway
      /\ c.sub.t = "string" /\ c.sub.s # ""

\* C25: Validate returns the token's sub if and only if the signature
\* verifies under the key for its kid with an allowed algorithm, iss is in the
\* issuer allowlist (when one is configured), at least one aud value is in the
\* audience allowlist (when one is configured; a string and an array are
\* treated alike), now <= exp + leeway, now >= nbf - leeway when nbf is
\* present, and sub is not empty; in every other case it returns an error and
\* no subject.
C25_ValidateIff ==
  vout.called =>
    IF Acceptable
    THEN vout.err = NoErr /\ vout.sub = vin.tok.claims.sub.s
    ELSE vout.err # NoErr /\ vout.sub = ""

\* C22: validating a token whose kid is not in the JWKS cache triggers a
\* refresh, a fetch of the key document, before the token is rejected as
\* unknown kid, also when the cache is still within its TTL: a call that is
\* rejected as unknown kid has asked the key server for the document.
C22_MissTriggersFetch ==
  vlast.keyErr = "unknown kid" => vlast.path = "fetched"

\* Validate has just returned the subject of the token
Succeeded == vlast.path # "none" /\ vlast.err = NoErr

\* the step is a refresh of goroutine g that returns an error
RefreshFails(g) ==
  /\ vals[g].pc = "refresh"
  /\ vals'[g].pc = "reread"
  /\ vals'[g].err # NoErr

\* C23: when a JWKS refresh fails (transport error, status outside 2xx,
\* undecodable or empty key document), the cached keys and fetched_at are left
\* unchanged; the validation proceeds with the cached key for the token's kid
\* if one exists, and fails otherwise.
C23_StaleCacheRetained ==
  /\ [][\A g \in Validators : RefreshFails(g) => jwks' = jwks]_vars
  /\ [](vlast.path = "failed" =>
          /\ vlast.key = CachedKey(jwks, vlast.tok.kid)
          /\ vlast.key # NoKeyFound =>
               vlast.err = NoErr /\ vlast.sub = vlast.tok.claims.sub.s
          /\ vlast.key = NoKeyFound => vlast.err # NoErr /\ vlast.sub = "")

\* a refresh failed on a stale cache and the token was accepted with the
\* key that was still cached
C23_Witness ==
  /\ vlast.path = "failed"
  /\ Succeeded
  /\ ~vlast.freshAtRead
  /\ jwks.fetchedAt # Never

\* C24 as stated: whenever Validate succeeds for a token with kid k, keys[k]
\* was present at some point during the call, and it was either read while
\* now - fetched_at < cache_ttl or obtained by a refresh performed during
\* that call after the miss.
C24_FreshOrRefreshed ==
  Succeeded =>
    /\ vlast.key = KeyOf(vlast.tok.kid)
    /\ \/ vlast.freshAtRead
       \/ vlast.path = "fetched"

\* C24, amended: whenever Validate succeeds for a token with kid k, keys[k]
\* was present when the call read it, and it was read either while
\* now - fetched_at < cache_ttl or after a refresh attempted during that call
\* after the miss, whether the attempt fetched the document, found the cache
\* fresh again, or failed and left the stale cache in place.
C24_FreshOrAttempted ==
  Succeeded =>
    /\ vlast.key = KeyOf(vlast.tok.kid)
    /\ \/ vlast.path = "cached" /\ vlast.freshAtRead
       \/ vlast.path \in {"fetched", "skipped", "failed"}

\* a token for k1 is accepted with a key fetched more than cache_ttl ago,
\* after the refresh of the call failed
C24_Witness ==
  /\ Succeeded
  /\ vlast.tok.kid = "k1"
  /\ vlast.path = "failed"
  /\ vnow - jwks.fetchedAt >= CacheTTL

\* C26: admin paths: with no admin key configured every request gets 404 and
\* the admin handler is never invoked, whatever X-Admin-Key it carries; with a
\* key configured a request whose X-Admin-Key is missing or different gets 401
\* unauthorized and the handler is not invoked; only a request carrying
\* exactly the configured key reaches the handler.
C26_AdminKey ==
  \A x \in adone :
    /\ adm = "" => x.status = 404 /\ ~x.invoked
    /\ adm # "" /\ x.header # adm =>
         x.status = 401 /\ x.error = "unauthorized" /\ ~x.invoked
    /\ x.invoked <=> adm # "" /\ x.header = adm

\* with a key configured a request with a key that differs by one byte is
\* refused and a request with the key reaches the handler
C26_Witness ==
  /\ adm = "dev-admin-key"
  /\ \E x, y \in adone :
       /\ x.header = "dev-admin-key " /\ x.status = 401 /\ ~x.invoked
       /\ y.header = "dev-admin-key" /\ y.status = 200 /\ y.invoked

\* C27: a request that ends with 413 request_too_large leaves the breaker's
\* consecutive_failures for its route unchanged, also when the 413 is produced
\* by the proxy's error handler after the request passed the breaker gate: no
\* step of a request whose answer is 413 changes the failure count.
C27_TooLargeLeavesFailures ==
  [][\A r \in Reqs :
       (Moves(r) /\ RespAfter(r).status = 413)
       => breaker'.fails = breaker.fails]_vars

\* the outermost handler of request r returns in this step by a panic: one it
\* was unwinding with, or one raised in this step with nothing written
EndsByPanic(r) ==
  /\ sent'.req = r
  /\ panicked[r] \/ sent'.resp.error = "aborted"

\* C28: a panic raised in any stage of the request pipeline of the running
\* gateway is recovered and reported to the client as 500 internal_error (and
\* the process keeps serving other requests): whenever the handling of a
\* request ends by a panic, the answer delivered is 500 internal_error.
C28_PanicRecovered ==
  [][\A r \in Reqs :
       EndsByPanic(r)
       => sent'.resp.status = 500 /\ sent'.resp.error = "internal_error"]_vars

\* the places in the declared route list of the routes with this prefix; a
\* route is named by its place in the list given to New
DeclaredWith(prefix) ==
  {rtr.routes[i].Name : i \in
     {k \in 1..Len(rtr.routes) : rtr.routes[k].PathPrefix = prefix}}

MemInit ==
  /\ PipelineOff
  /\ ChargeOff
  /\ SnapOff
  /\ AdminOff
  /\ AuthOff
  /\ LimiterOff
  /\ SharedOff
  /\ EdgeOff
  /\ RouterOff
  /\ mem = NewMemoryLimiter
  /\ mclock = 0
  /\ \E l \in Limits :
       callers \in [Callers ->
                      {[NotCalling EXCEPT !.rps = l.rate, !.burst = l.burst,
                                          !.cost = k] : k \in Costs}]

\* m.mu.Lock() ... m.mu.Unlock(): the entry of the key is looked up, made on
\* first use, stamped, and its limiter kept by the caller
Lock(c) ==
  /\ callers[c].pc = "idle"
  /\ LET first == mem.m = 0
         made == IF first
                 THEN Append(mem.entries,
                             NewEntry(callers[c].rps, callers[c].burst))
                 ELSE mem.entries
         e == IF first THEN Len(made) ELSE mem.m
     IN  /\ mem' = [mem EXCEPT !.m = e,
                      !.entries = [made EXCEPT ![e].lastSeen = mclock]]
         /\ callers' = [callers EXCEPT ![c].pc = "loop", ![c].lim = e]
  /\ UNCHANGED <<vars_pipeline, chargeVars, snapVars, adminVars, authVars, limiterVars, sharedVars,
                 edgeVars, routerVars, mclock>>

\* one turn of the cost loop, outside m.mu: lim.Allow() on the limiter the
\* caller kept, and the Decision once the loop ends
Take(c) ==
  /\ callers[c].pc = "loop"
  /\ LET me == callers[c]
         one == LimAllow(mem.entries[me.lim], mclock)
         over == ~one.ok \/ me.i + 1 >= me.cost \div Token
     IN  /\ mem' = [mem EXCEPT !.entries[me.lim] = one.e]
         /\ callers' = [callers EXCEPT
                          ![c].i = IF one.ok THEN me.i + 1 ELSE me.i,
                          ![c].pc = IF over THEN "done" ELSE "loop",
                          ![c].allowed = over /\ one.ok]
  /\ UNCHANGED <<vars_pipeline, chargeVars, snapVars, adminVars, authVars, limiterVars, sharedVars,
                 edgeVars, routerVars, mclock>>

\* the ticker of gcLoop fires: under m.mu the entry is deleted when it was
\* last seen more than ttl ago
Collect ==
  /\ mem.m # 0
  /\ Evictable(mem.entries[mem.m], mclock)
  /\ mem' = [mem EXCEPT !.m = 0, !.deleted = @ + 1]
  /\ UNCHANGED <<vars_pipeline, chargeVars, snapVars, adminVars, authVars, limiterVars, sharedVars,
                 edgeVars, routerVars, callers, mclock>>

\* time passes, once, with calls under way or not
Wait(d) ==
  /\ mclock = 0
  /\ mclock' = mclock + d
  /\ UNCHANGED <<vars_pipeline, chargeVars, snapVars, adminVars, authVars, limiterVars, sharedVars,
                 edgeVars, routerVars, mem, callers>>

MemNext ==
  \/ \E c \in Callers : Lock(c)
  \/ \E c \in Callers : Take(c)
  \/ Collect
  \/ \E d \in Idles : Wait(d)

MemSpec == MemInit /\ [][MemNext]_vars

\* the calls in a row, in the order f, each one whole, on a limiter that has
\* no entry for the key: how many of them are allowed
CallerList == <<"c1", "c2", "c3">>

RECURSIVE AllowedInOrder(_, _, _)
AllowedInOrder(e, f, k) ==
  IF k > Len(CallerList) THEN 0
  ELSE LET me == callers[CallerList[f[k]]]
           call == MemoryAllow(e, 0, me.rps, me.burst, me.cost)
       IN  (IF call.dec.allowed THEN 1 ELSE 0)
             + AllowedInOrder(call.entry, f, k + 1)

SequentialCounts ==
  {AllowedInOrder(NoEntry, f, 1) : f \in Orders(Len(CallerList))}

AllowedCalls == Cardinality({c \in Callers : callers[c].allowed})

\* C30: for a given key on the local backend, concurrent allow calls are
\* serializable, including concurrent first uses of the key: as long as no
\* entry was evicted exactly one bucket is made for the key and every call
\* draws from it, and without elapsed time the number of calls allowed is
\* what some sequential order of the same calls allows, never more than
\* floor(burst).
C30_LocalSerializable ==
  mem.deleted = 0 =>
    /\ Len(mem.entries) <= 1
    /\ \A c \in Callers :
         callers[c].pc # "idle" => Len(mem.entries) = 1 /\ callers[c].lim = 1
    /\ mclock = 0 =>
         /\ \A c \in Callers : AllowedCalls <= callers[c].burst \div Token
         /\ (\A c \in Callers : callers[c].pc = "done")
              => AllowedCalls \in SequentialCounts

\* validations under way that have asked for the key document
Fetchers == {g \in Validators : vals[g].pc = "reread" /\ vals[g].fetched}

\* C31 as stated: when validations run concurrently against a JWKS cache that
\* has expired, at most one fetch of the key document is issued per expiry:
\* no two validations under way have both asked for the document on finding
\* the same cache expired.
C31_OneFetchPerExpiry ==
  \A g, h \in Fetchers : g # h => vals[g].expired # vals[h].expired

\* goroutine g comes out of refresh
Refreshes(g) == vals[g].pc = "refresh" /\ vals'[g].pc = "reread"

\* C31, amended: the document is asked for only by a validation that finds
\* the cache expired once it holds the refresh mutex, so after a fetch that
\* succeeded the validations that were waiting issue none and read the keys
\* it stored, while after a fetch that failed the cache is still expired and
\* each of them issues its own.
C31_FetchOnlyWhenExpired ==
  [][\A g \in Validators :
       Refreshes(g) =>
         /\ vals'[g].fetched <=> ~Fresh(Validator, jwks, vnow)
         /\ ~vals'[g].fetched => jwks' = jwks /\ vals'[g].err = NoErr
         /\ \A h \in Fetchers :
              vals'[g].fetched => \/ vals[h].err # NoErr
                                  \/ vals[h].expired # vals'[g].expired]_vars

\* one validation fetched the document with success and the other, which was
\* waiting for the refresh mutex meanwhile, came out of refresh without a
\* fetch while the first had not returned yet
C31_Witness ==
  \E g, h \in Validators :
    /\ g # h
    /\ vals[g].pc = "reread" /\ vals[g].fetched /\ vals[g].err = NoErr
    /\ vals[g].expired # Never
    /\ vals[h].pc = "reread" /\ ~vals[h].fetched
    /\ jwks.fetchedAt = vnow

\* ---- readers of the JWKS cache while refresh replaces it

SnapInit ==
  /\ PipelineOff
  /\ ChargeOff
  /\ MemOff
  /\ AdminOff
  /\ LimiterOff
  /\ SharedOff
  /\ EdgeOff
  /\ RouterOff
  /\ ClaimsOff
  /\ jwks = EmptyCache
  /\ idp = {}
  /\ vnow = 0
  /\ vals = [g \in Validators |-> Idling]
  /\ vlast = NoLast
  /\ mu = Unlocked
  /\ wr = NotRefreshing
  /\ rd = [r \in Readers |-> NotReading]
  /\ hist = {EmptyCache}

\* refresh, holding refreshMu, finds the cache expired and gets a document
\* with keys in it
Fetch(doc) ==
  /\ wr.pc = "idle"
  /\ ~Fresh(Validator, jwks, vnow)
  /\ doc # {}
  /\ wr' = [pc |-> "build", doc |-> doc, next |-> {}]
  /\ UNCHANGED <<vars_pipeline, chargeVars, memVars, adminVars, claimsVars, limiterVars,
                 sharedVars, edgeVars, routerVars, idp, vals, vlast, jwks, vnow, mu, rd, hist>>

\* one turn of the loop over doc.Keys that stores a key: next[k.Kid] = pub
Store(kid) ==
  /\ wr.pc = "build"
  /\ kid \in Usable(wr.doc) \ wr.next
  /\ wr' = [wr EXCEPT !.next = @ \cup {kid}]
  /\ UNCHANGED <<vars_pipeline, chargeVars, memVars, adminVars, claimsVars, limiterVars,
                 sharedVars, edgeVars, routerVars, idp, vals, vlast, jwks, vnow, mu, rd, hist>>

\* the loop is over: refresh returns when next is empty, and otherwise
\* takes j.mu.Lock()
Acquire ==
  /\ wr.pc = "build"
  /\ wr.next = Usable(wr.doc)
  /\ IF wr.next = {}
     THEN wr' = NotRefreshing /\ mu' = mu
     ELSE /\ WLock(mu)
          /\ mu' = [mu EXCEPT !.writer = TRUE]
          /\ wr' = [wr EXCEPT !.pc = "keys"]
  /\ UNCHANGED <<vars_pipeline, chargeVars, memVars, adminVars, claimsVars, limiterVars,
                 sharedVars, edgeVars, routerVars, idp, vals, vlast, jwks, vnow, rd, hist>>

\* j.keys = next
WriteKeys ==
  /\ wr.pc = "keys"
  /\ jwks' = [jwks EXCEPT !.keys = wr.next]
  /\ wr' = [wr EXCEPT !.pc = "fetchedAt"]
  /\ UNCHANGED <<vars_pipeline, chargeVars, memVars, adminVars, claimsVars, limiterVars,
                 sharedVars, edgeVars, routerVars, idp, vals, vlast, vnow, mu, rd, hist>>

\* j.fetchedAt = time.Now()
WriteFetchedAt ==
  /\ wr.pc = "fetchedAt"
  /\ jwks' = [jwks EXCEPT !.fetchedAt = vnow]
  /\ wr' = [wr EXCEPT !.pc = "unlock"]
  /\ UNCHANGED <<vars_pipeline, chargeVars, memVars, adminVars, claimsVars, limiterVars,
                 sharedVars, edgeVars, routerVars, idp, vals, vlast, vnow, mu, rd, hist>>

\* j.mu.Unlock(), and refresh returns
UnlockCache ==
  /\ wr.pc = "unlock"
  /\ mu' = [mu EXCEPT !.writer = FALSE]
  /\ wr' = NotRefreshing
  /\ hist' = hist \cup {jwks}
  /\ UNCHANGED <<vars_pipeline, chargeVars, memVars, adminVars, claimsVars, limiterVars,
                 sharedVars, edgeVars, routerVars, idp, vals, vlast, jwks, vnow, rd>>

\* getKey: j.mu.RLock()
ReaderLock(r) ==
  /\ rd[r].pc = "idle"
  /\ RLock(mu)
  /\ mu' = [mu EXCEPT !.readers = @ \cup {r}]
  /\ rd' = [rd EXCEPT ![r] = [NotReading EXCEPT !.pc = "keys"]]
  /\ UNCHANGED <<vars_pipeline, chargeVars, memVars, adminVars, claimsVars, limiterVars,
                 sharedVars, edgeVars, routerVars, idp, vals, vlast, jwks, vnow, wr, hist>>

\* key := j.keys[kid]
ReadKeys(r) ==
  /\ rd[r].pc = "keys"
  /\ rd' = [rd EXCEPT ![r].keys = jwks.keys, ![r].pc = "fetchedAt"]
  /\ UNCHANGED <<vars_pipeline, chargeVars, memVars, adminVars, claimsVars, limiterVars,
                 sharedVars, edgeVars, routerVars, idp, vals, vlast, jwks, vnow, mu, wr, hist>>

\* fresh := time.Since(j.fetchedAt) < j.cacheTTL
ReadFetchedAt(r) ==
  /\ rd[r].pc = "fetchedAt"
  /\ rd' = [rd EXCEPT ![r].fetchedAt = jwks.fetchedAt, ![r].pc = "unlock"]
  /\ UNCHANGED <<vars_pipeline, chargeVars, memVars, adminVars, claimsVars, limiterVars,
                 sharedVars, edgeVars, routerVars, idp, vals, vlast, jwks, vnow, mu, wr, hist>>

\* j.mu.RUnlock()
ReaderUnlock(r) ==
  /\ rd[r].pc = "unlock"
  /\ mu' = [mu EXCEPT !.readers = @ \ {r}]
  /\ rd' = [rd EXCEPT ![r].pc = "done"]
  /\ UNCHANGED <<vars_pipeline, chargeVars, memVars, adminVars, claimsVars, limiterVars,
                 sharedVars, edgeVars, routerVars, idp, vals, vlast, jwks, vnow, wr, hist>>

\* the reader is in getKey again, for another token
ReadAgain(r) ==
  /\ rd[r].pc = "done"
  /\ rd' = [rd EXCEPT ![r] = NotReading]
  /\ UNCHANGED <<vars_pipeline, chargeVars, memVars, adminVars, claimsVars, limiterVars,
                 sharedVars, edgeVars, routerVars, idp, vals, vlast, jwks, vnow, mu, wr, hist>>

\* a second passes
Second ==
  /\ vnow < MaxClock
  /\ vnow' = vnow + 1
  /\ UNCHANGED <<vars_pipeline, chargeVars, memVars, adminVars, claimsVars, limiterVars,
                 sharedVars, edgeVars, routerVars, idp, vals, vlast, jwks, mu, wr, rd, hist>>

SnapNext ==
  \/ \E doc \in Docs : Fetch(doc)
  \/ \E kid \in {"k1", "k2"} : Store(kid)
  \/ Acquire
  \/ WriteKeys
  \/ WriteFetchedAt
  \/ UnlockCache
  \/ \E r \in Readers : ReaderLock(r)
  \/ \E r \in Readers : ReadKeys(r)
  \/ \E r \in Readers : ReadFetchedAt(r)
  \/ \E r \in Readers : ReaderUnlock(r)
  \/ \E r \in Readers : ReadAgain(r)
  \/ Second

SnapSpec == SnapInit /\ [][SnapNext]_vars

\* what reader r has read of the cache
Observed(r) == [keys |-> rd[r].keys, fetchedAt |-> rd[r].fetchedAt]

\* C32: a JWKS cache reader running concurrently with a refresh observes
\* either the complete pre-refresh pair (keys, fetched_at) or the complete
\* post-refresh pair, never keys of one with the fetched_at of the other and
\* never a partially filled key map: the pair a reader has read is a pair the
\* cache held between refreshes, and nothing is written while a reader holds
\* the lock.
C32_WholeSnapshot ==
  /\ \A r \in Readers :
       rd[r].pc \in {"unlock", "done"} => Observed(r) \in hist
  /\ \A r \in Readers : rd[r].pc = "fetchedAt" => rd[r].keys = jwks.keys
  /\ mu.readers # {} => wr.pc \notin {"keys", "fetchedAt", "unlock"}

\* a refresh has written the keys and not yet fetchedAt, replacing a cache
\* that had keys; one reader read the whole earlier pair and the other is
\* held at RLock
C32_Witness ==
  /\ wr.pc = "fetchedAt"
  /\ jwks.fetchedAt # Never
  /\ \E r, q \in Readers :
       /\ rd[r].pc = "done"
       /\ Observed(r) \in hist
       /\ Observed(r).fetchedAt = jwks.fetchedAt
       /\ Observed(r).keys # jwks.keys
       /\ rd[q].pc = "idle"

\* the requests admitted while the breaker was half-open whose handler has
\* not come back yet, or has come back and waits for doneLocked
ProbesInFlight ==
  {r \in Reqs : admittedIn[r] = "half_open" /\ ~panicked[r]}

\* C33: the number of requests that were admitted while the breaker was
\* HALF_OPEN and have not yet completed never exceeds
\* half_open_max_in_flight, across repeated OPEN/HALF_OPEN cycles and with
\* slow requests admitted before the breaker opened.
C33_ProbesInFlightBounded ==
  Cardinality(ProbesInFlight) <= HalfOpenMaxInFlight

\* C34: only the completion of a request admitted as a half-open probe moves
\* the breaker out of HALF_OPEN or decrements half_open_in_flight: a request
\* admitted while the breaker was CLOSED that completes once the breaker is
\* HALF_OPEN changes neither the state nor half_open_in_flight.
C34_OnlyProbesSettle ==
  [][\A r \in Reqs :
       (DoneStep(r) /\ breaker.state = "half_open"
                    /\ admittedIn[r] = "closed")
       => /\ breaker'.state = breaker.state
          /\ breaker'.halfInFlight = breaker.halfInFlight]_vars

\* the breaker is half-open with every probe slot taken: it rejects arrivals
ProbeSlotsTaken == breaker.state = "half_open" /\ HalfOpenFull(breaker)

\* C35: every request admitted as a half-open probe eventually gives its slot
\* back, even when its handler panics instead of returning, so a half-open
\* breaker does not reject arrivals forever: with the goroutines running and
\* requests arriving, a breaker whose probe slots are all taken eventually
\* has a slot free or has left HALF_OPEN.
C35_ProbeSlotReturned == ProbeSlotsTaken ~> ~ProbeSlotsTaken

\* request r is inside the handler ConcurrencyLimit wraps, or back from it
\* and about to run the deferred Release
PastGate(r) ==
  /\ pc[r] # "idle"
  /\ \E i \in 1..pos[r] : Handlers(cfg)[i] = "concurrency"
  /\ ~AtEntry(r, "concurrency")

\* C36: every successful TryAcquire of ConcurrencyLimit is followed by
\* exactly one Release when the wrapped handler finishes, by returning or by
\* panicking: after every step the slots in use are those of the requests
\* past the gate, a request leaves the gate only through the Release that
\* gives back its one slot, and so with no request past the gate in_use is 0
\* and an arrival is admitted.
C36_AcquireReleasePaired ==
  [][/\ inUse' = Cardinality({r \in Reqs : holds'[r]})
     /\ \A r \in Reqs :
          /\ holds'[r] <=> (cfg'.maxInFlight > 0 /\ PastGate(r)')
          /\ (holds[r] /\ ~holds'[r])
             => /\ AtExit(r, "concurrency")
                /\ inUse' = inUse - 1
          /\ (AtEntry(r, "concurrency") /\ Moves(r)
                /\ \A q \in Reqs : ~PastGate(q))
             => /\ inUse = 0
                /\ Forwarded(r)
                /\ holds'[r]
                /\ inUse' = 1]_vars

\* a request that took a slot has ended by the panic of the proxy, and its
\* slot is free again
C36_Witness ==
  /\ sent.req # 0
  /\ sent.resp.error = "aborted"
  /\ \E i \in 1..Len(sent.trace) : sent.trace[i] = "concurrency"
  /\ inUse = 0
  /\ \A r \in Reqs : ~holds[r]

\* C37: on the remote backend the stored last-refill timestamp of a key never
\* decreases (so that gateways calling in turn on the same key are not
\* credited more refill than rps times the time elapsed): a run of the
\* script on a key that holds its hash leaves a ts that is not before the one
\* it found.
C37_TimestampMonotone ==
  [][Stored(store, clock) => store'.ts >= store.ts]_vars

\* the tokens of the key on each backend when a call arrives at time t, the
\* refill for the time elapsed counted in
RemoteTokensAt(s, t) ==
  IF Stored(s, t) THEN Refill(s.tokens, Elapsed(t, s.ts), lim.rate, lim.burst)
  ELSE lim.burst

LocalTokensAt(e, t) ==
  advance(IF e.present THEN e ELSE NewEntry(lim.rate, lim.burst), t)

\* C38: an allow call that is rejected deducts nothing: apart from the
\* time-based refill the key's token count is the same after the call as
\* before it, on both backends and for every integer cost >= 1.
C38_RejectionDeductsNothing ==
  [][Len(calls') = Len(calls) + 1 =>
       LET call == calls'[Len(calls')]
       IN  /\ (~call.err /\ ~call.remote.allowed)
                => store'.tokens = RemoteTokensAt(store, clock)
           /\ ~call.local.allowed
                => LocalTokensAt(entry', clock) = LocalTokensAt(entry, clock)]_vars

\* ---- requests charged by the rate limit and answered further down

ChargeInit ==
  /\ PipelineOff
  /\ SnapOff
  /\ MemOff
  /\ AdminOff
  /\ AuthOff
  /\ LimiterOff
  /\ SharedOff
  /\ EdgeOff
  /\ RouterOff
  /\ chain \in ChargedRoutes
  /\ quota = [k \in ChargeKeys(chain) |-> NoEntry]
  /\ billed = Arrived([req |-> [remoteAddr |-> "", xff |-> <<>>,
                                xreal |-> "", bearer |-> ""],
                       backendErr |-> FALSE, gateFull |-> FALSE,
                       breakerOpen |-> FALSE])

\* the catch-all handler serves a request on the route
Charge(e) ==
  /\ billed' = ServeCharging(chain, quota, 1, Arrived(e))
  /\ quota' = IF billed'.limiter \in {"allowed", "rejected"}
              THEN [quota EXCEPT ![billed'.key] = billed'.entry]
              ELSE quota
  /\ UNCHANGED <<vars_pipeline, snapVars, memVars, adminVars, authVars,
                 limiterVars, sharedVars, edgeVars, routerVars, chain>>

ChargeNext == \E e \in Exchanges : Charge(e)

ChargeSpec == ChargeInit /\ [][ChargeNext]_vars

\* the request just served was let through by the limiter and refused further
\* down: 401 by RequireAuth, 503 by ConcurrencyLimit or CircuitBreak
RefusedDownstream == billed.status \in {401, 503}

C40_CountersAgreeWithState ==
  cfg.brEnabled =>
    /\ breaker.state = "closed" =>
         0 <= breaker.fails /\ breaker.fails < FailureThreshold
    /\ breaker.state = "open" => breaker.fails = FailureThreshold
    /\ breaker.state = "half_open" => breaker.fails = 0
    /\ breaker.halfInFlight >= 0

\* a failed probe has just sent the breaker back to OPEN, with the count put
\* back at the threshold
C40_Witness ==
  /\ cfg.brEnabled
  /\ lastDone = "probe_failure"
  /\ breaker.state = "open"
  /\ breaker.fails = FailureThreshold
  /\ breaker.halfInFlight = 0

====
